---- MODULE Spec2Model ----
(***************************************************************************)
(* A model of django_querysets_single_query_fetch/service.py:              *)
(* QuerysetsSingleQueryFetch.execute and the helpers it calls, together    *)
(* with the collaborators it talks to (the ORM compiler, the driver and    *)
(* the relational engine) as far as the service depends on them.           *)
(*                                                                         *)
(* Text (SQL literals, JSON keys) is a sequence of one-character strings,  *)
(* so that quoting, str() and the engine's lexer are real conversions.     *)
(***************************************************************************)
EXTENDS Integers, Sequences, FiniteSets, TLC

\* ------------------------------------------------------------------ bounds

\* longest batch handed to execute
MaxBatch == 3

\* execute is called at most this many times on the same batch
MaxCalls == 2

\* longest string parameter bound in a filter
MaxStrLen == 2

\* ----------------------------------------------------------- text helpers

Digit(d) ==
  CASE d = 0 -> "0" [] d = 1 -> "1" [] d = 2 -> "2" [] d = 3 -> "3"
    [] d = 4 -> "4" [] d = 5 -> "5" [] d = 6 -> "6" [] d = 7 -> "7"
    [] d = 8 -> "8" [] OTHER -> "9"

RECURSIVE PyStrNat(_)
PyStrNat(n) ==
  IF n < 10 THEN <<Digit(n)>> ELSE PyStrNat(n \div 10) \o <<Digit(n % 10)>>

\* Python's str() of an int
PyStrInt(n) == IF n < 0 THEN <<"-">> \o PyStrNat(0 - n) ELSE PyStrNat(n)

\* two-digit text of 0..99
TwoDigits(n) == <<Digit(n \div 10), Digit(n % 10)>>

RECURSIVE HasChar(_, _)
HasChar(s, c) ==
  IF s = <<>> THEN FALSE ELSE IF Head(s) = c THEN TRUE ELSE HasChar(Tail(s), c)

\* --------------------------------------------------- the store (fixture)

\* A database value: a type tag and a payload.  decimal payloads count
\* hundredths (5022 is 50.22), str payloads are texts.
DbInt(n) == [t |-> "int", v |-> n]
DbStr(s) == [t |-> "str", v |-> s]
DbDecimal(h) == [t |-> "decimal", v |-> h]

\* equality of two tagged values: same type and same payload
TypedEq(a, b) == a.t = b.t /\ a.v = b.v

\* SQL NULL, and Python's None
PyNone == [t |-> "none", v |-> 0]

\* testapp.models.StoreProduct, the columns the model carries, in field order
Fields == <<"id", "store_id", "name", "category_id", "selling_price">>

FieldType(f) ==
  CASE f \in {"id", "store_id", "category_id"} -> "int"
    [] f = "name" -> "str"
    [] OTHER -> "decimal"

\* a product of store 1 in the category given (0 for none)
MkRow(id, name, category, price) ==
  [id |-> DbInt(id), store_id |-> DbInt(1), name |-> DbStr(name),
   category_id |-> IF category = 0 THEN PyNone ELSE DbInt(category),
   selling_price |-> DbDecimal(price)]

\* the rows the tests' setUp bakes (prices and categories as there), names
\* chosen so that quotes and percent signs occur in stored names and one
\* name repeats
Table ==
  << MkRow(1, <<"a">>, 0, 5022),
     MkRow(2, <<"a", "'">>, 1, 10033),
     MkRow(3, <<"a", "%">>, 1, 7550),
     MkRow(4, <<"a">>, 2, 12075) >>

\* the text of an exact decimal, as the engine prints numeric(10,2)
DecimalText(h) == PyStrNat(h \div 100) \o <<".">> \o TwoDigits(h % 100)

\* the engine's text form of a stored value, what a literal is compared with
ColumnText(val) ==
  CASE val.t = "int" -> PyStrInt(val.v)
    [] val.t = "str" -> val.v
    [] val.t = "decimal" -> DecimalText(val.v)
    [] OTHER -> <<>>

\* ------------------------------------ a model of every patched field class
\* _transform_object_to_handle_json_agg and the JSON re-serialisation serve
\* any model.  Ledger carries one column of each field class they name: a
\* nullable DecimalField wide enough for sixteen significant digits, a field
\* of a DecimalField subclass, a UUIDField, a nullable DateField, a
\* DateTimeField and a JSON column.

LedgerFields == <<"id", "amount", "fee", "uid", "day", "at", "payload">>

\* the fields of a model, in field order
\* Note carries a JSON column whose values are JSON scalars too, and a
\* column that is not JSON but decodes as a list (an array of integers)
NoteFields == <<"id", "body", "tags">>

\* testapp.models.OnlineStore and StoreProductCategory
StoreFields == <<"id", "name", "created_at", "expired_on">>
CategoryFields == <<"id", "store_id", "name">>

ModelFields(model) ==
  CASE model = "Ledger" -> LedgerFields
    [] model = "Note" -> NoteFields
    [] model = "OnlineStore" -> StoreFields
    [] model = "StoreProductCategory" -> CategoryFields
    [] OTHER -> Fields

\* the foreign keys of a model in field order: the relation's name, the
\* column that holds the key and the model it points to
Relations(model) ==
  CASE model = "StoreProduct" ->
         << [name |-> "store", attname |-> "store_id", to |-> "OnlineStore"],
            [name |-> "category", attname |-> "category_id",
             to |-> "StoreProductCategory"] >>
    [] model = "StoreProductCategory" ->
         << [name |-> "store", attname |-> "store_id", to |-> "OnlineStore"] >>
    [] OTHER -> <<>>

\* field.__class__ of a model's field
FieldClass(model, f) ==
  IF model = "Ledger"
  THEN CASE f = "id" -> "BigAutoField"
         [] f = "amount" -> "DecimalField"
         [] f = "fee" -> "MoneyField"
         [] f = "uid" -> "UUIDField"
         [] f = "day" -> "DateField"
         [] f = "at" -> "DateTimeField"
         [] OTHER -> "JSONField"
  ELSE IF model = "Note"
  THEN CASE f = "id" -> "BigAutoField"
         [] f = "body" -> "JSONField"
         [] OTHER -> "ArrayField"
  ELSE IF model = "OnlineStore"
  THEN CASE f = "id" -> "BigAutoField"
         [] f = "name" -> "CharField"
         [] f = "created_at" -> "DateTimeField"
         [] OTHER -> "DateField"
  ELSE CASE f = "id" -> "BigAutoField"
         [] f = "name" -> "CharField"
         [] f \in {"store_id", "category_id"} -> "ForeignKey"
         [] OTHER -> "DecimalField"

\* the classes a field class derives from, itself included: DateTimeField
\* derives from DateField, MoneyField is a project's own DecimalField
ClassBases(cls) ==
  CASE cls = "MoneyField" -> {"MoneyField", "DecimalField", "Field"}
    [] cls = "DateTimeField" -> {"DateTimeField", "DateField", "Field"}
    [] OTHER -> {cls, "Field"}

\* issubclass(a, b)
IsSubclass(a, b) == b \in ClassBases(a)

\* the engine's column type of a field, as a literal is compared with it
ModelFieldType(model, f) ==
  IF model = "Ledger"
  THEN (IF f = "id" THEN "int"
        ELSE IF f \in {"amount", "fee"} THEN "decimal" ELSE "str")
  ELSE IF model = "Note" THEN (IF f = "id" THEN "int" ELSE "str")
  ELSE IF model \in {"OnlineStore", "StoreProductCategory"}
  THEN (IF f \in {"id", "store_id"} THEN "int" ELSE "str")
  ELSE FieldType(f)

\* a decimal of sixteen significant digits: 2^46 + c/100 (70368744177664.93
\* for c = 93); `v` counts the hundredths above 2^46
DbWide(c) == [t |-> "decimal", v |-> c, base |-> "2^46"]
IsWide(val) == "base" \in DOMAIN val

DbUuid(s) == [t |-> "uuid", v |-> s]
DbDate(d) == [t |-> "date", v |-> d]
\* a timestamp: its day and its time of day
DbDatetime(d, s) == [t |-> "datetime", v |-> <<d, s>>]

\* a decoded JSON mapping (its items in order) and a decoded JSON list
PyDict(items) == [t |-> "dict", v |-> items]
PyList(items) == [t |-> "list", v |-> items]

MkLedger(id, amount, fee, uid, day, at, payload) ==
  [id |-> DbInt(id), amount |-> amount, fee |-> DbDecimal(fee),
   uid |-> DbUuid(uid), day |-> day, at |-> at, payload |-> payload]

\* rows with an amount that is wide, null, wide and a multiple of a quarter,
\* and narrow; a null day; payloads that are a mapping, a list, an empty
\* mapping and an empty list
LedgerTable ==
  << MkLedger(1, DbWide(93), 5022, <<"u", "1">>, DbDate(1), DbDatetime(1, 2),
              PyDict(<<[k |-> "k", v |-> DbInt(1)]>>)),
     MkLedger(2, PyNone, 100, <<"u", "2">>, PyNone, DbDatetime(2, 0),
              PyList(<<DbInt(1), DbInt(2)>>)),
     MkLedger(3, DbWide(50), 7550, <<"u", "3">>, DbDate(3), DbDatetime(3, 1),
              PyDict(<<>>)),
     MkLedger(4, DbDecimal(5022), 12075, <<"u", "4">>, DbDate(4), DbDatetime(4, 4),
              PyList(<<>>)) >>

MkNote(id, body, tags) == [id |-> DbInt(id), body |-> body, tags |-> tags]

\* bodies that are the JSON string "12", the JSON number 7, a mapping and
\* the JSON string "a"; tags that are a list of integers or null
NoteTable ==
  << MkNote(1, DbStr(<<"1", "2">>), PyNone),
     MkNote(2, DbInt(7), PyNone),
     MkNote(3, PyDict(<<[k |-> "k", v |-> DbInt(1)]>>), PyList(<<DbInt(1), DbInt(2)>>)),
     MkNote(4, DbStr(<<"a">>), PyNone) >>

\* the store the tests' setUp bakes, with its expiry date, and a second
\* store that has none
StoreTable ==
  << [id |-> DbInt(1), name |-> DbStr(<<"s">>),
      created_at |-> DbDatetime(1, 2), expired_on |-> DbDate(1)],
     [id |-> DbInt(2), name |-> DbStr(<<"t">>),
      created_at |-> DbDatetime(2, 0), expired_on |-> PyNone] >>

\* a category of each store
CategoryTable ==
  << [id |-> DbInt(1), store_id |-> DbInt(1), name |-> DbStr(<<"c">>)],
     [id |-> DbInt(2), store_id |-> DbInt(2), name |-> DbStr(<<"d">>)] >>

\* the stored rows of a model
ModelTable(model) ==
  CASE model = "Ledger" -> LedgerTable
    [] model = "Note" -> NoteTable
    [] model = "OnlineStore" -> StoreTable
    [] model = "StoreProductCategory" -> CategoryTable
    [] OTHER -> Table

\* ------------------------------------------- bound parameters and literals

\* A bound parameter: its Python runtime type and the text str() gives it
\* (for a str parameter, the string itself).
Param(t, s) == [t |-> t, s |-> s]
StrParam(s) == Param("str", s)
IntParam(n) == Param("int", PyStrInt(n))

\* the classes isinstance() accepts for a value of runtime type t: bool is a
\* subclass of int and datetime.datetime of datetime.date
PyBases(t) ==
  CASE t = "bool" -> {"bool", "int"}
    [] t = "datetime" -> {"datetime", "date"}
    [] OTHER -> {t}

IsInstance(param, cls) == cls \in PyBases(param.t)

\* the driver's escape of a string body: quotes and backslashes doubled
RECURSIVE EscapeBody(_)
EscapeBody(s) ==
  IF s = <<>> THEN <<>>
  ELSE IF Head(s) = "'" \/ Head(s) = "\\"
       THEN <<Head(s), Head(s)>> \o EscapeBody(Tail(s))
       ELSE <<Head(s)>> \o EscapeBody(Tail(s))

\* _get_sanitized_sql_param: the driver's quoting primitive (psycopg.sql.quote
\* with no connection: a quoted literal, E-prefixed when a backslash occurs)
GetSanitizedSqlParam(s) ==
  IF HasChar(s, "\\")
  THEN <<" ", "E", "'">> \o EscapeBody(s) \o <<"'">>
  ELSE <<"'">> \o EscapeBody(s) \o <<"'">>

\* InlineParam with str(param) spliced in the else branch instead of raising
InlineParamStringified(param) ==
  IF IsInstance(param, "str")
  THEN [ok |-> TRUE, lit |-> GetSanitizedSqlParam(param.s)]
  ELSE IF IsInstance(param, "UUID") \/ IsInstance(param, "datetime")
  THEN [ok |-> TRUE, lit |-> <<"'">> \o param.s \o <<"'">>]
  ELSE [ok |-> TRUE, lit |-> param.s]

\* One turn of the loop over params in _get_django_sql_for_queryset: the
\* literal spliced for one parameter, or the ValueError of the else branch.
InlineParam(param) ==
  IF IsInstance(param, "str")
  THEN [ok |-> TRUE, lit |-> GetSanitizedSqlParam(param.s)]
  ELSE IF IsInstance(param, "UUID") \/ IsInstance(param, "datetime")
  THEN [ok |-> TRUE, lit |-> <<"'">> \o param.s \o <<"'">>]
  ELSE IF IsInstance(param, "int") \/ IsInstance(param, "float")
  THEN [ok |-> TRUE, lit |-> param.s]
  ELSE [ok |-> FALSE, lit |-> <<>>]

\* ------------------------------------------------- the engine's lexer

\* The body of a quoted literal after its opening quote: '' is a quote, a lone
\* quote closes the literal and must be its last character; in an E-string a
\* backslash escapes the next character.
RECURSIVE ScanBody(_, _, _)
ScanBody(rest, esc, acc) ==
  IF rest = <<>> THEN [ok |-> FALSE, text |-> acc]
  ELSE IF Head(rest) = "'"
  THEN IF Len(rest) >= 2 /\ rest[2] = "'"
       THEN ScanBody(Tail(Tail(rest)), esc, Append(acc, "'"))
       ELSE [ok |-> Tail(rest) = <<>>, text |-> acc]
  ELSE IF esc /\ Head(rest) = "\\"
  THEN IF Len(rest) >= 2
       THEN ScanBody(Tail(Tail(rest)), esc, Append(acc, rest[2]))
       ELSE [ok |-> FALSE, text |-> acc]
  ELSE ScanBody(Tail(rest), esc, Append(acc, Head(rest)))

\* the value a literal denotes to the engine; ok is FALSE when the text is
\* not exactly one literal (a syntax error or text escaping the literal)
LexLiteral(lit) ==
  LET l == IF lit # <<>> /\ Head(lit) = " " THEN Tail(lit) ELSE lit
  IN  IF l = <<>> THEN [ok |-> FALSE, text |-> <<>>]
      ELSE IF Head(l) = "'" THEN ScanBody(Tail(l), FALSE, <<>>)
      ELSE IF Len(l) >= 2 /\ l[1] = "E" /\ l[2] = "'"
      THEN ScanBody(Tail(Tail(l)), TRUE, <<>>)
      ELSE [ok |-> ~HasChar(l, "'") /\ ~HasChar(l, "\\") /\ ~HasChar(l, "%"),
            text |-> l]

\* ------------------------------------------- the driver's query conversion

\* cursor.execute(raw_sql, params={}): params is not None, so the driver
\* scans the statement text for placeholders: %% becomes %, any other % is a
\* placeholder with no parameter to fill it and the call raises.
RECURSIVE DriverConvert(_)
DriverConvert(text) ==
  IF text = <<>> THEN [ok |-> TRUE, text |-> <<>>]
  ELSE IF Head(text) = "%"
  THEN IF Len(text) >= 2 /\ text[2] = "%"
       THEN LET r == DriverConvert(Tail(Tail(text)))
            IN  [ok |-> r.ok, text |-> <<"%">> \o r.text]
       ELSE [ok |-> FALSE, text |-> <<>>]
  ELSE LET r == DriverConvert(Tail(text))
       IN  [ok |-> r.ok, text |-> <<Head(text)>> \o r.text]

\* ------------------------------------------------ querysets (the ORM side)

\* An annotation: its alias, its expression, and the two flags the count
\* rewrite reads.
Annotation(alias, expr, summary, agg) ==
  [alias |-> alias, expr |-> expr, is_summary |-> summary,
   contains_aggregate |-> agg]

\* the expressions the tests annotate with
ValueTen == Annotation("test_val", "value10", FALSE, FALSE)
DoubledPrice == Annotation("doubled_price", "double_price", FALSE, FALSE)
ProductCount == Annotation("product_count", "count", FALSE, TRUE)
TotalPrice == Annotation("total_price", "sum_price", FALSE, TRUE)

\* Model.objects.all(): the query state the service reads.  high_mark -1 is
\* None; group_by.mode is "None", "True" or "tuple"; mask_set FALSE is an
\* annotation_select_mask of None; deferred holds the fields left to load
\* on first access.
AllObjects ==
  [model |-> "StoreProduct", db |-> "default", deferred |-> {},
   select_related |-> {}, known_related_objects |-> <<>>,
   where |-> <<>>, empty |-> FALSE, low_mark |-> 0, high_mark |-> -1,
   distinct |-> FALSE, group_by |-> [mode |-> "None", cols |-> <<>>],
   annotations |-> <<>>, mask_set |-> FALSE, mask |-> {},
   select |-> <<>>, default_cols |-> TRUE, subquery |-> FALSE,
   combinator |-> FALSE, iterable_class |-> "ModelIterable"]

\* Ledger.objects.all()
AllRecords == [AllObjects EXCEPT !.model = "Ledger"]

\* Note.objects.all()
AllNotes == [AllObjects EXCEPT !.model = "Note"]

\* OnlineStore.objects.all() and StoreProductCategory.objects.all()
AllStores == [AllObjects EXCEPT !.model = "OnlineStore"]
AllCategories == [AllObjects EXCEPT !.model = "StoreProductCategory"]

\* .using(alias): the queryset is bound to the database of that alias
Using(q, alias) == [q EXCEPT !.db = alias]

\* .select_related(*paths): each path is the sequence of relation names of
\* "a__b", and a path brings the relations it goes through
SelectRelated(q, paths) ==
  [q EXCEPT !.select_related =
     @ \cup UNION {{SubSeq(p, 1, n) : n \in 1..Len(p)} : p \in paths}]

\* related_manager.all() of the instances `ids` of the model a relation
\* leads to, or such a queryset or-ed with another: the instances are kept
\* as known related objects under the relation's field, by primary key
KnownRelated(q, name, ids) ==
  LET rels == Relations(q.model)
      field == rels[CHOOSE j \in 1..Len(rels) : rels[j].name = name]
  IN  [q EXCEPT !.known_related_objects =
         Append(@, [field |-> field, rel_objs |-> {DbInt(k) : k \in ids}])]

\* .only(*names): every other field but the primary key is deferred
Only(q, names) ==
  [q EXCEPT !.deferred =
     {ModelFields(q.model)[j] : j \in {x \in 1..Len(ModelFields(q.model)) :
         ModelFields(q.model)[x] \notin names \cup {"id"}}}]

\* .filter(col=val)
Filter(q, col, val) ==
  [q EXCEPT !.where = Append(@, [col |-> col, val |-> val])]

\* .filter(id__in=[]) and .none(): the where clause can match nothing, so
\* compiling raises EmptyResultSet
FilterInNothing(q) == [q EXCEPT !.empty = TRUE]

\* Query.set_limits(low, high), relative to the limits already set (high -1
\* is None); equal marks make the query empty
SetLimits(q, low, high) ==
  LET h1 == IF high = -1 THEN q.high_mark
            ELSE IF q.high_mark # -1
                 THEN (IF q.high_mark < q.low_mark + high
                       THEN q.high_mark ELSE q.low_mark + high)
                 ELSE q.low_mark + high
      l1 == IF h1 # -1 /\ h1 < q.low_mark + low THEN h1 ELSE q.low_mark + low
  IN  [q EXCEPT !.low_mark = l1, !.high_mark = h1,
                !.empty = (@ \/ l1 = h1)]

\* .distinct()
Distinct(q) == [q EXCEPT !.distinct = TRUE]

\* .values(*fields)
Values(q, fields) ==
  [q EXCEPT !.select = fields, !.default_cols = FALSE,
            !.iterable_class = "ValuesIterable"]

\* .values_list(*fields) and .values_list(field, flat=True)
ValuesList(q, fields, flat) ==
  [q EXCEPT !.select = fields, !.default_cols = FALSE,
            !.iterable_class =
               IF flat THEN "FlatValuesListIterable" ELSE "ValuesListIterable"]

\* .annotate(alias=expr): an aggregate groups the query, by the model's
\* columns for a model queryset and by the values() fields otherwise
Annotate(q, a) ==
  [q EXCEPT !.annotations = Append(@, a),
            !.group_by =
               IF ~a.contains_aggregate THEN @
               ELSE IF q.iterable_class = "ModelIterable"
                    THEN [mode |-> "True", cols |-> <<>>]
                    ELSE [mode |-> "tuple", cols |-> q.select]]

\* Query.is_sliced
IsSliced(q) == q.low_mark # 0 \/ q.high_mark # -1

\* Query.annotation_select: the annotations the mask lets through
AnnotationSelect(q) ==
  SelectSeq(q.annotations, LAMBDA a : ~q.mask_set \/ a.alias \in q.mask)

\* ------------------------------------------------------------ the engine
\* What the relational engine returns for a compiled SELECT over Table.  A
\* result row is an ordered sequence of [k, v] pairs: the column's output
\* name and its value.

\* "col%d" % col_idx: the alias with_col_aliases=True gives an unnamed column
ColAlias(i) ==
  IF i < 10 THEN "col" \o Digit(i)
  ELSE "col" \o Digit(i \div 10) \o Digit(i % 10)

\* the select list: the model's (or the values()) columns, aliased col1..,
\* then the selected annotations under their own aliases
LoadedFields(q) ==
  SelectSeq(ModelFields(q.model), LAMBDA f : f \notin q.deferred)

FieldCols(q) == IF q.default_cols THEN LoadedFields(q) ELSE q.select

SelectList(q, aliased) ==
  [i \in 1..Len(FieldCols(q)) |->
     [k |-> IF aliased THEN ColAlias(i) ELSE FieldCols(q)[i],
      kind |-> "field", name |-> FieldCols(q)[i]]]
  \o
  [i \in 1..Len(AnnotationSelect(q)) |->
     [k |-> AnnotationSelect(q)[i].alias,
      kind |-> "annotation", name |-> AnnotationSelect(q)[i].expr]]

\* the relations of a model that select_related asks for, in field order,
\* and what is asked of the model a relation leads to
SelectedRelations(model, requested) ==
  SelectSeq(Relations(model), LAMBDA rel : <<rel.name>> \in requested)

SubRequested(requested, name) ==
  {Tail(p) : p \in {x \in requested : Len(x) > 1 /\ x[1] = name}}

\* a row of NULLs, what an outer join gives where no row is joined
NullRow(model) ==
  [f \in {ModelFields(model)[j] : j \in 1..Len(ModelFields(model))} |-> PyNone]

\* LEFT OUTER JOIN on the foreign key: the row the key points to
JoinedRow(rel, row) ==
  LET rows == ModelTable(rel.to)
  IN  IF \E r \in 1..Len(rows) : rows[r].id = row[rel.attname]
      THEN rows[CHOOSE r \in 1..Len(rows) : rows[r].id = row[rel.attname]]
      ELSE NullRow(rel.to)

\* get_related_selections: after the model's own columns, the columns of
\* each selected relation from the n-th on, each followed by the columns
\* of the relations selected below it
RECURSIVE RelatedColumnsFrom(_, _, _, _)
RelatedColumnsFrom(model, requested, row, n) ==
  LET rels == SelectedRelations(model, requested)
  IN  IF n > Len(rels) THEN <<>>
      ELSE LET rel == rels[n]
               target == JoinedRow(rel, row)
               fields == ModelFields(rel.to)
           IN  [j \in 1..Len(fields) |-> target[fields[j]]]
               \o RelatedColumnsFrom(rel.to, SubRequested(requested, rel.name),
                                     target, 1)
               \o RelatedColumnsFrom(model, requested, row, n + 1)

\* the joined columns of a queryset's row; values() drops select_related
RelatedColumns(q, row) ==
  IF q.default_cols THEN RelatedColumnsFrom(q.model, q.select_related, row, 1)
  ELSE <<>>

HasAggregate(q) ==
  \E i \in 1..Len(AnnotationSelect(q)) : AnnotationSelect(q)[i].contains_aggregate

\* the GROUP BY columns: none without grouping, else the grouping tuple and
\* every selected column
RECURSIVE Dedupe(_)
Dedupe(s) ==
  IF s = <<>> THEN <<>>
  ELSE LET d == Dedupe(SubSeq(s, 1, Len(s) - 1))
       IN  IF \E i \in 1..Len(d) : d[i] = s[Len(s)] THEN d
           ELSE Append(d, s[Len(s)])

GroupCols(q) ==
  IF q.group_by.mode = "None" THEN <<>>
  ELSE Dedupe(q.group_by.cols \o FieldCols(q))

SameGroup(r1, r2, cols) ==
  \/ \E i \in 1..Len(cols) : cols[i] = "id" /\ r1.id = r2.id
  \/ /\ \A i \in 1..Len(cols) : cols[i] # "id"
     /\ \A i \in 1..Len(cols) : r1[cols[i]] = r2[cols[i]]

\* the groups of rows, in order of first appearance
RECURSIVE GroupBy(_, _)
GroupBy(rows, cols) ==
  IF rows = <<>> THEN <<>>
  ELSE LET g == GroupBy(SubSeq(rows, 1, Len(rows) - 1), cols)
           r == rows[Len(rows)]
       IN  IF \E i \in 1..Len(g) : SameGroup(g[i][1], r, cols)
           THEN [i \in 1..Len(g) |->
                   IF SameGroup(g[i][1], r, cols) THEN Append(g[i], r) ELSE g[i]]
           ELSE Append(g, <<r>>)

RECURSIVE SumPrice(_)
SumPrice(g) ==
  IF g = <<>> THEN 0 ELSE g[1].selling_price.v + SumPrice(Tail(g))

\* an annotation's value over the rows of one group
AnnotationValue(expr, g) ==
  CASE expr = "value10" -> DbInt(10)
    [] expr = "double_price" -> DbDecimal(2 * g[1].selling_price.v)
    [] expr = "count" -> DbInt(Len(g))
    [] expr = "sum_price" -> IF g = <<>> THEN PyNone ELSE DbDecimal(SumPrice(g))
    [] OTHER -> PyNone

\* SELECT ... over the rows `base` that passed the WHERE clause
EvalSelect(q, base, aliased) ==
  LET groups ==
        IF q.group_by.mode # "None" THEN GroupBy(base, GroupCols(q))
        ELSE IF HasAggregate(q) THEN <<base>>
        ELSE [i \in 1..Len(base) |-> <<base[i]>>]
      sel == SelectList(q, aliased)
      out == [i \in 1..Len(groups) |->
                [j \in 1..Len(sel) |->
                   [k |-> sel[j].k,
                    v |-> IF sel[j].kind = "field"
                          THEN groups[i][1][sel[j].name]
                          ELSE AnnotationValue(sel[j].name, groups[i])]]
                \o
                (IF groups[i] = <<>> THEN <<>>
                 ELSE [j \in 1..Len(RelatedColumns(q, groups[i][1])) |->
                         [k |-> ColAlias(Len(FieldCols(q)) + j),
                          v |-> RelatedColumns(q, groups[i][1])[j]]])]
      dist == IF q.distinct THEN Dedupe(out) ELSE out
      hi == IF q.high_mark = -1 \/ q.high_mark > Len(dist)
            THEN Len(dist) ELSE q.high_mark
  IN  SubSeq(dist, q.low_mark + 1, hi)

\* a SELECT the engine rejects: an aggregate next to a plain column with no
\* GROUP BY
Ungrouped(q) ==
  /\ HasAggregate(q)
  /\ q.group_by.mode = "None"
  /\ \/ FieldCols(q) # <<>>
     \/ \E i \in 1..Len(AnnotationSelect(q)) :
           AnnotationSelect(q)[i].expr = "double_price"

\* ------------------------------------------- the querysets handed to execute
\* A plain queryset and the two wrappers.  `given` records the queryset the
\* caller passed in; the service never reads it.

PlainQueryset(q) == [kind |-> "QuerySet", queryset |-> q, given |-> q]

QuerysetCountWrapper(q) ==
  [kind |-> "QuerysetCountWrapper", queryset |-> q, given |-> q]

\* QuerysetGetOrNoneWrapper keeping the queryset as given, without [:1]
QuerysetGetOrNoneWrapperUnsliced(q) ==
  [kind |-> "QuerysetGetOrNoneWrapper", queryset |-> q, given |-> q]

\* self.queryset = queryset[:1]
QuerysetGetOrNoneWrapper(q) ==
  [kind |-> "QuerysetGetOrNoneWrapper", queryset |-> SetLimits(q, 0, 1),
   given |-> q]

\* The Aggregate intent: a queryset with the aggregates declared over it,
\* each a name, a function and the column it folds.
QuerysetAggregateWrapper(q, aggregates) ==
  [kind |-> "QuerysetAggregateWrapper", queryset |-> q, given |-> q,
   aggregates |-> aggregates]

IsAggregateIntent(queryset) == queryset.kind = "QuerysetAggregateWrapper"

\* ------------------------------------------------------------- compilation

\* obj.add_annotation(Count("*"), alias="__count"): is_summary is not passed,
\* so the annotation is not a summary one
CountStar == Annotation("__count", "count", FALSE, TRUE)

\* the annotations of obj other than the added aggregate
ExistingAnnotations(obj) ==
  SelectSeq(obj.annotations, LAMBDA a : a.alias # "__count")

\* the test that sends the count through an AggregateQuery over a subquery
NeedsSubquery(obj) ==
  \/ obj.group_by.mode = "tuple"
  \/ IsSliced(obj)
  \/ ExistingAnnotations(obj) # <<>>
  \/ obj.distinct
  \/ obj.combinator

\* the inner query of the subquery branch
CountInnerQuery(obj) ==
  LET masked == [obj EXCEPT !.subquery = TRUE, !.mask_set = TRUE,
                   !.mask = {AnnotationSelect(obj)[i].alias :
                               i \in 1..Len(AnnotationSelect(obj))}]
      has_existing_aggregate_annotations ==
        \E i \in 1..Len(ExistingAnnotations(obj)) :
           ExistingAnnotations(obj)[i].contains_aggregate
      grouped ==
        IF masked.distinct THEN masked
        ELSE [masked EXCEPT
                !.group_by = IF masked.default_cols
                                /\ has_existing_aggregate_annotations
                             THEN [mode |-> "tuple", cols |-> <<"id">>]
                             ELSE @,
                !.default_cols = FALSE]
      \* summary annotations move to the outer query
      kept == SelectSeq(grouped.annotations, LAMBDA a : ~a.is_summary)
      moved == [grouped EXCEPT !.annotations = kept,
                  !.mask = {a \in @ : \E i \in 1..Len(kept) : kept[i].alias = a}]
  IN  IF moved.select = <<>> /\ ~moved.default_cols /\ moved.mask = {}
      THEN [moved EXCEPT !.select = <<"id">>]
      ELSE moved

\* the summary annotations the outer AggregateQuery receives
CountOuterAnnotations(obj) ==
  SelectSeq(AnnotationSelect(obj), LAMBDA a : a.is_summary)

\* _get_fetch_count_compiler_from_queryset: the query whose compiler is
\* returned, an AggregateQuery over a subquery or the count query itself
GetFetchCountCompilerFromQueryset(queryset) ==
  LET obj == [queryset EXCEPT !.annotations = Append(@, CountStar),
                !.mask = IF queryset.mask_set THEN @ \cup {"__count"} ELSE @]
  IN  IF NeedsSubquery(obj)
      THEN [compiler |-> "SQLAggregateCompiler",
            annotations |-> CountOuterAnnotations(obj),
            query |-> CountInnerQuery(obj)]
      ELSE [compiler |-> "SQLCompiler",
            annotations |-> <<>>,
            query |-> [obj EXCEPT !.select = <<>>, !.default_cols = FALSE,
                                  !.low_mark = 0, !.high_mark = -1]]

\* _get_compiler_from_queryset
GetCompilerFromQueryset(queryset) ==
  IF queryset.kind = "QuerysetCountWrapper"
  THEN GetFetchCountCompilerFromQueryset(queryset.queryset)
  ELSE [compiler |-> "SQLCompiler", annotations |-> <<>>,
        query |-> queryset.queryset]

\* "" : the fragment of a queryset that can match nothing
EmptySql == [kind |-> "empty", query |-> AllObjects, lits |-> <<>>]

\* the literals of the loop over params, in positional order
InlineParams(where) == [j \in 1..Len(where) |-> InlineParam(where[j].val)]

\* _get_django_sql_for_queryset.  compiler.as_sql(with_col_aliases=True) is
\* SQLCompiler.as_sql's signature; SQLAggregateCompiler.as_sql takes no such
\* argument and the call raises TypeError.  EmptyResultSet gives "", an
\* unsupported parameter ValueError, and otherwise the inlined SQL is wrapped
\* in (SELECT COALESCE(json_agg(item), '[]') FROM (...) item).
GetDjangoSqlForQueryset(queryset) ==
  LET c == GetCompilerFromQueryset(queryset)
      inlined == InlineParams(c.query.where)
  IN  IF c.compiler = "SQLAggregateCompiler"
      THEN [kind |-> "TypeError", query |-> c.query, lits |-> <<>>]
      ELSE IF c.query.empty THEN EmptySql
      ELSE IF \E j \in 1..Len(inlined) : ~inlined[j].ok
      THEN [kind |-> "ValueError", query |-> c.query, lits |-> <<>>]
      ELSE [kind |-> "json_agg", query |-> c.query,
            lits |-> [j \in 1..Len(inlined) |-> inlined[j].lit]]

\* The fragment of an Aggregate intent: "" when the query can match nothing,
\* else the aggregate SELECT with its parameters inlined like any other
\* fragment's, as a nested JSON object without the json_agg wrapper.
GetAggregateSqlForQueryset(queryset) ==
  LET inlined == InlineParams(queryset.queryset.where)
  IN  IF queryset.queryset.empty THEN EmptySql
      ELSE IF \E j \in 1..Len(inlined) : ~inlined[j].ok
      THEN [kind |-> "ValueError", query |-> queryset.queryset, lits |-> <<>>]
      ELSE [kind |-> "aggregate", query |-> queryset.queryset,
            lits |-> [j \in 1..Len(inlined) |-> inlined[j].lit],
            aggregates |-> queryset.aggregates]

\* the fragment of any intent
CompiledFragment(queryset) ==
  IF IsAggregateIntent(queryset) THEN GetAggregateSqlForQueryset(queryset)
  ELSE GetDjangoSqlForQueryset(queryset)

\* `if not queryset_sql` / `if sql`: the truth value of the fragment text
Truthy(sql) == sql.kind # "empty"

\* -------------------------------------------- executing the one statement

\* BuildRawSql with each fragment keyed by its position in self.querysets
BuildRawSqlKeyedByPosition(sqls) ==
  LET positions == SelectSeq([i \in 1..Len(sqls) |-> i], LAMBDA i : Truthy(sqls[i]))
  IN  [k \in 1..Len(positions) |->
         [key |-> <<"'">> \o PyStrNat(positions[k] - 1) \o <<"'">>,
          sql |-> sqls[positions[k]]]]

\* enumerate(non_empty_django_sqls_for_querysets): the pairs 'i', sql of
\* json_build_object, the key a quoted literal of str(i)
BuildRawSql(sqls) ==
  LET non_empty == SelectSeq(sqls, Truthy)
  IN  [i \in 1..Len(non_empty) |->
         [key |-> <<"'">> \o PyStrNat(i - 1) \o <<"'">>, sql |-> non_empty[i]]]

\* the statement after the driver's conversion of its text
ConvertedSql(stmt) ==
  [i \in 1..Len(stmt) |->
     [key |-> DriverConvert(stmt[i].key).text,
      sql |-> [stmt[i].sql EXCEPT
                 !.lits = [j \in 1..Len(@) |-> DriverConvert(@[j]).text]]]]

\* the driver accepts the statement text: no stray placeholder in it
DriverAccepts(stmt) ==
  \A i \in 1..Len(stmt) :
     /\ DriverConvert(stmt[i].key).ok
     /\ \A j \in 1..Len(stmt[i].sql.lits) : DriverConvert(stmt[i].sql.lits[j]).ok

\* a literal the engine can compare with a column of type ftype: a quoted
\* literal takes the column's type, a bare token must be a number and the
\* column numeric
IsQuoted(lit) ==
  LET l == IF lit # <<>> /\ Head(lit) = " " THEN Tail(lit) ELSE lit
  IN  l # <<>> /\ (Head(l) = "'" \/ Head(l) = "E")

IsNumber(lit) ==
  \A j \in 1..Len(lit) :
     lit[j] \in {"0", "1", "2", "3", "4", "5", "6", "7", "8", "9", ".", "-"}

LiteralFits(lit, ftype) ==
  IsQuoted(lit) \/ (IsNumber(lit) /\ ftype \in {"int", "decimal"})

\* the engine parses and types the statement: every literal is one literal
\* that fits its column, and no aggregate stands ungrouped next to a plain
\* column
EngineAccepts(stmt) ==
  \A i \in 1..Len(stmt) :
     /\ LexLiteral(stmt[i].key).ok
     /\ \A j \in 1..Len(stmt[i].sql.lits) :
           /\ LexLiteral(stmt[i].sql.lits[j]).ok
           /\ LiteralFits(stmt[i].sql.lits[j],
                          ModelFieldType(stmt[i].sql.query.model,
                                         stmt[i].sql.query.where[j].col))
     /\ ~Ungrouped(stmt[i].sql.query)

\* WHERE col = literal AND ...: the stored value's text equals the literal's
RowMatches(row, where, lits) ==
  \A j \in 1..Len(where) : LexLiteral(lits[j]).text = ColumnText(row[where[j].col])

\* the 64th nearest to c hundredths (64c/100 is never halfway)
Round64(c) == (64 * c + 50) \div 100

\* float(text) of a decimal's JSON number: the nearest double.  A decimal of
\* at most fifteen significant digits is told apart by its double, which is
\* written as that decimal's hundredths; in the binade of 2^46 doubles lie
\* 1/64 apart and `v` counts the 64ths above 2^46.
FloatOf(val) ==
  IF IsWide(val)
  THEN [t |-> "float", v |-> Round64(val.v), base |-> "2^46"]
  ELSE [t |-> "float", v |-> val.v]

\* the ISO text the engine's JSON gives a date or a timestamp
IsoText(val) ==
  IF val.t = "date" THEN <<Digit(val.v)>>
  ELSE <<Digit(val.v[1]), "T", Digit(val.v[2])>>

\* the JSON value json_agg emits and the driver's json.loads returns: exact
\* decimals come back as floats, UUIDs, dates and timestamps as texts, a JSON
\* column's value as the decoded mapping or list, ints and texts as
\* themselves, NULL as None
JsonValue(val) ==
  CASE val.t = "decimal" -> FloatOf(val)
    [] val.t = "uuid" -> DbStr(val.v)
    [] val.t \in {"date", "datetime"} -> DbStr(IsoText(val))
    [] OTHER -> val

JsonRows(rows) ==
  [i \in 1..Len(rows) |->
     [j \in 1..Len(rows[i]) |-> [k |-> rows[i][j].k, v |-> JsonValue(rows[i][j].v)]]]

\* COALESCE(json_agg(item), '[]') over one fragment's SELECT
EvalFragment(sql) ==
  JsonRows(EvalSelect(sql.query,
                      SelectSeq(ModelTable(sql.query.model),
                                LAMBDA r : RowMatches(r, sql.query.where, sql.lits)),
                      TRUE))

\* an aggregate folded over rows: the count of them, the sum of a decimal
\* column (NULL over no row)
FoldAggregate(aggregate, rows) ==
  IF aggregate.func = "Count" THEN DbInt(Len(rows))
  ELSE IF rows = <<>> THEN PyNone
  ELSE DbDecimal(SumPrice(rows))

\* the nested JSON object of an Aggregate fragment: one member per declared
\* aggregate.  The object is kept as the only element of a sequence, where
\* the other fragments have their rows.
EvalAggregateFragment(sql) ==
  LET rows == SelectSeq(ModelTable(sql.query.model),
                        LAMBDA r : RowMatches(r, sql.query.where, sql.lits))
  IN  << [j \in 1..Len(sql.aggregates) |->
            [k |-> sql.aggregates[j].name,
             v |-> JsonValue(FoldAggregate(sql.aggregates[j], rows))]] >>

\* what the engine answers to one fragment of the statement
FragmentResponse(sql) ==
  IF sql.kind = "aggregate" THEN EvalAggregateFragment(sql) ELSE EvalFragment(sql)

\* cursor.fetchone()[0]: the decoded JSON object, a dict from key to rows,
\* kept as its items in insertion order
EngineResponse(stmt) ==
  [i \in 1..Len(stmt) |->
     [k |-> LexLiteral(stmt[i].key).text, rows |-> FragmentResponse(stmt[i].sql)]]

\* dict[key]: found is FALSE for a KeyError
DictGet(d, key) ==
  IF \E i \in 1..Len(d) : d[i].k = key
  THEN [found |-> TRUE,
        rows |-> d[CHOOSE i \in 1..Len(d) :
                     d[i].k = key /\ \A j \in (i+1)..Len(d) : d[j].k # key].rows]
  ELSE [found |-> FALSE, rows |-> <<>>]

\* ------------------------------------------------------------ rehydration

PyTuple(items) == [t |-> "tuple", v |-> items]
PyEntity(attrs) == [t |-> "entity", v |-> attrs]

\* the distance of c hundredths from k 64ths, in 6400ths
Off64(k, c) == IF 100 * k >= 64 * c THEN 100 * k - 64 * c ELSE 64 * c - 100 * k

\* str(float) in the binade of 2^46: the shortest decimal text that reads
\* back as the same double (no fraction digit, else one, else two), the
\* nearest of them, the even digit on a tie; given as hundredths above 2^46
Repr64(k) ==
  LET near(step) == {c \in 0..100 : c % step = 0 /\ Round64(c) = k}
      step == IF near(100) # {} THEN 100 ELSE IF near(10) # {} THEN 10 ELSE 1
  IN  CHOOSE c \in near(step) :
        \A d \in near(step) \ {c} :
           \/ Off64(k, c) < Off64(k, d)
           \/ Off64(k, c) = Off64(k, d) /\ (c \div step) % 2 = 0

\* Decimal(str(value)) for a float or an int read from JSON
DecimalOfStr(val) ==
  CASE val.t = "float" ->
         IF IsWide(val) THEN DbWide(Repr64(val.v)) ELSE DbDecimal(val.v)
    [] val.t = "int" -> DbDecimal(100 * val.v)
    [] OTHER -> val

\* the digit a character writes
DigitVal(c) == CHOOSE d \in 0..9 : Digit(d) = c

\* parse_datetime(text): a date-only text is that day at midnight
\* None for a text that is no date and no timestamp
ParseDatetime(text) ==
  LET IsDigit(c) == \E d \in 0..9 : Digit(d) = c
  IN  IF Len(text) = 1 /\ IsDigit(text[1])
      THEN DbDatetime(DigitVal(text[1]), 0)
      ELSE IF Len(text) = 3 /\ IsDigit(text[1]) /\ text[2] = "T"
              /\ IsDigit(text[3])
      THEN DbDatetime(DigitVal(text[1]), DigitVal(text[3]))
      ELSE PyNone

\* _transform_object_to_handle_json_agg, for one field of the object: the
\* chain of issubclass tests on the field's class, each patching a value
\* that is not None (and, past the first, is a str)
TransformField(cls, val) ==
  IF IsSubclass("DecimalField", cls)
  THEN (IF val.t # "none" THEN DecimalOfStr(val) ELSE val)
  ELSE IF IsSubclass("UUIDField", cls)
  THEN (IF val.t = "str" THEN DbUuid(val.v) ELSE val)
  ELSE IF IsSubclass("DateField", cls)
  THEN (IF val.t # "str" THEN val
        ELSE IF ParseDatetime(val.v).t = "none"
        THEN [t |-> "AttributeError", v |-> 0]
        ELSE DbDate(ParseDatetime(val.v).v[1]))
  ELSE IF IsSubclass("DateTimeField", cls)
  THEN (IF val.t = "str" THEN ParseDatetime(val.v) ELSE val)
  ELSE val

\* json.dumps of a decoded mapping or list of small integers
RECURSIVE JoinTexts(_)
JoinTexts(texts) ==
  IF texts = <<>> THEN <<>>
  ELSE IF Len(texts) = 1 THEN texts[1]
  ELSE texts[1] \o <<",", " ">> \o JoinTexts(Tail(texts))

JsonDumps(value) ==
  IF value.t = "dict"
  THEN <<"{">>
       \o JoinTexts([i \in 1..Len(value.v) |->
                       <<"\"", value.v[i].k, "\"", ":", " ">>
                       \o PyStrInt(value.v[i].v.v)])
       \o <<"}">>
  ELSE <<"[">>
       \o JoinTexts([i \in 1..Len(value.v) |-> PyStrInt(value.v[i].v)])
       \o <<"]">>

\* the items of a JSON list body and the members of a JSON object body;
\* ok is FALSE where the text is not JSON
RECURSIVE ParseItems(_)
ParseItems(body) ==
  IF body = <<>> THEN [ok |-> TRUE, v |-> <<>>]
  ELSE IF ~(\E d \in 0..9 : Digit(d) = body[1]) THEN [ok |-> FALSE, v |-> <<>>]
  ELSE IF Len(body) = 1 THEN [ok |-> TRUE, v |-> <<DbInt(DigitVal(body[1]))>>]
  ELSE IF Len(body) < 4 \/ body[2] # "," \/ body[3] # " "
  THEN [ok |-> FALSE, v |-> <<>>]
  ELSE LET r == ParseItems(SubSeq(body, 4, Len(body)))
       IN  [ok |-> r.ok, v |-> <<DbInt(DigitVal(body[1]))>> \o r.v]

RECURSIVE ParseMembers(_)
ParseMembers(body) ==
  IF body = <<>> THEN [ok |-> TRUE, v |-> <<>>]
  ELSE IF Len(body) < 6 \/ body[1] # "\"" \/ body[3] # "\"" \/ body[4] # ":"
          \/ body[5] # " " \/ ~(\E d \in 0..9 : Digit(d) = body[6])
  THEN [ok |-> FALSE, v |-> <<>>]
  ELSE LET member == [k |-> body[2], v |-> DbInt(DigitVal(body[6]))]
       IN  IF Len(body) = 6 THEN [ok |-> TRUE, v |-> <<member>>]
           ELSE IF Len(body) < 14 \/ body[7] # "," \/ body[8] # " "
           THEN [ok |-> FALSE, v |-> <<>>]
           ELSE LET r == ParseMembers(SubSeq(body, 9, Len(body)))
                IN  [ok |-> r.ok, v |-> <<member>> \o r.v]

\* int(text) of a numeral
RECURSIVE NatOfText(_)
NatOfText(text) ==
  IF text = <<>> THEN 0
  ELSE 10 * NatOfText(SubSeq(text, 1, Len(text) - 1)) + DigitVal(text[Len(text)])

IsNumeral(text) ==
  /\ text # <<>>
  /\ \A j \in 1..Len(text) : \E d \in 0..9 : Digit(d) = text[j]
  /\ (Len(text) > 1 => text[1] # "0")

\* json.loads(text); ok is FALSE for a JSONDecodeError
JsonLoads(text) ==
  IF Len(text) >= 2 /\ text[1] = "[" /\ text[Len(text)] = "]"
  THEN LET r == ParseItems(SubSeq(text, 2, Len(text) - 1))
       IN  [ok |-> r.ok, value |-> PyList(r.v)]
  ELSE IF Len(text) >= 2 /\ text[1] = "{" /\ text[Len(text)] = "}"
  THEN LET r == ParseMembers(SubSeq(text, 2, Len(text) - 1))
       IN  [ok |-> r.ok, value |-> PyDict(r.v)]
  ELSE IF IsNumeral(text) THEN [ok |-> TRUE, value |-> DbInt(NatOfText(text))]
  ELSE [ok |-> FALSE, value |-> PyNone]

\* the loop over row_dict.items() with the json.dumps left out
DumpStructuredKept(val) == val

\* the loop over row_dict.items(): a value that decoded as a mapping or a
\* list is put back as its JSON text
DumpStructured(val) ==
  IF val.t \in {"dict", "list"} THEN DbStr(JsonDumps(val)) ELSE val

\* compiler.results_iter applies the selected fields' converters.  The one
\* that matters here is the JSON field's from_db_value: None stays None, a
\* text is json.loads-ed (and kept as it is when it is not JSON), and any
\* other value makes json.loads raise TypeError (ok is FALSE).
FromDbValue(cls, val) ==
  IF cls # "JSONField" \/ val.t = "none" THEN [ok |-> TRUE, value |-> val]
  ELSE IF val.t # "str" THEN [ok |-> FALSE, value |-> val]
  ELSE IF JsonLoads(val.v).ok THEN [ok |-> TRUE, value |-> JsonLoads(val.v).value]
  ELSE [ok |-> TRUE, value |-> val]

\* compiler.results_iter applies each selected expression's convert_value:
\* int(value) for an integer expression and Decimal(value) for a decimal one.
\* Decimal of a float is the float's exact binary expansion: the number of
\* hundredths when that is a multiple of a quarter, and otherwise a decimal
\* of many more digits that no numeric(10,2) equals.
ConvertValue(expr, val) ==
  IF expr \in {"double_price", "sum_price"} /\ val.t = "float"
  THEN IF val.v % 25 = 0 THEN DbDecimal(val.v)
       ELSE [t |-> "decimal", v |-> val.v, expansion |-> "binary"]
  ELSE val

\* the values of the row taken from the last column to the first
RowValuesLastFirst(row_dict) ==
  [j \in 1..Len(row_dict) |-> row_dict[Len(row_dict) + 1 - j].v]

\* tuple(row_dict.values())
RowValues(row_dict) == [j \in 1..Len(row_dict) |-> row_dict[j].v]

\* new_results: every row of the results as the tuple of its values, the
\* mappings and lists among them dumped
NewResults(results) ==
  [i \in 1..Len(results) |->
     [j \in 1..Len(results[i]) |-> DumpStructured(RowValues(results[i])[j])]]

\* the field's class passes one of the issubclass tests of the chain, so
\* the patch reads the attribute
IsPatched(cls) ==
  \E base \in {"DecimalField", "UUIDField", "DateField", "DateTimeField"} :
     IsSubclass(base, cls)

\* the deferred fields whose attribute the patch reads: getattr on a deferred
\* attribute makes the instance load it with a query of its own
\* (refresh_from_db)
RefreshedFields(queryset) ==
  SelectSeq(ModelFields(queryset.model),
            LAMBDA f : f \in queryset.deferred
                       /\ IsPatched(FieldClass(queryset.model, f)))

\* the value refresh_from_db loads for a field of the instance with this
\* primary key, None when the row is gone
RefreshFromDb(model, pk, f) ==
  LET rows == ModelTable(model)
  IN  IF \E r \in 1..Len(rows) : rows[r].id = pk
      THEN rows[CHOOSE r \in 1..Len(rows) : rows[r].id = pk][f]
      ELSE PyNone

\* the position of a field among the loaded ones
LoadedPos(queryset, f) ==
  CHOOSE j \in 1..Len(LoadedFields(queryset)) : LoadedFields(queryset)[j] = f

\* the number of columns of the selected relations from the n-th on
RECURSIVE RelatedWidth(_, _, _)
RelatedWidth(model, requested, n) ==
  LET rels == SelectedRelations(model, requested)
  IN  IF n > Len(rels) THEN 0
      ELSE Len(ModelFields(rels[n].to))
           + RelatedWidth(rels[n].to, SubRequested(requested, rels[n].name), 1)
           + RelatedWidth(model, requested, n + 1)

\* get_related_populators and RelatedPopulator.populate: the instance of
\* each selected relation from the n-th on is built from its columns of
\* the row (they start after `start`), with the instances of the relations
\* selected below it, and is cached on its parent under the relation's
\* name; a null primary key gives None
RECURSIVE RelatedAttrs(_, _, _, _, _)
RelatedAttrs(model, requested, vals, start, n) ==
  LET rels == SelectedRelations(model, requested)
  IN  IF n > Len(rels) THEN <<>>
      ELSE LET rel == rels[n]
               fields == ModelFields(rel.to)
               sub == SubRequested(requested, rel.name)
               data == [j \in 1..Len(fields) |->
                          IF start + j <= Len(vals) THEN vals[start + j] ELSE PyNone]
               obj == IF data[1].t = "none" THEN PyNone
                      ELSE PyEntity(
                             [j \in 1..Len(fields) |-> [k |-> fields[j], v |-> data[j]]]
                             \o RelatedAttrs(rel.to, sub, vals,
                                             start + Len(fields), 1))
           IN  <<[k |-> rel.name, v |-> obj]>>
               \o RelatedAttrs(model, requested, vals,
                               start + Len(fields) + RelatedWidth(rel.to, sub, 1),
                               n + 1)

\* an instance the caller already holds: the row of that primary key as the
\* direct path loads it
HeldInstance(model, pk) ==
  LET fields == ModelFields(model)
  IN  PyEntity([j \in 1..Len(fields) |->
                  [k |-> fields[j], v |-> RefreshFromDb(model, pk, fields[j])]])

\* the loop over known_related_objects without the is_cached test
RECURSIVE KnownRelatedAttrsUncached(_, _, _, _)
KnownRelatedAttrsUncached(model, known, attrs, n) ==
  IF n > Len(known) THEN <<>>
  ELSE LET field == known[n].field
           rel_obj_id ==
             IF \E j \in 1..Len(attrs) : attrs[j].k = field.attname
             THEN attrs[CHOOSE j \in 1..Len(attrs) : attrs[j].k = field.attname].v
             ELSE PyNone
           set == IF rel_obj_id \in known[n].rel_objs
                  THEN <<[k |-> field.name,
                          v |-> HeldInstance(field.to, rel_obj_id)]>>
                  ELSE <<>>
       IN  set \o KnownRelatedAttrsUncached(model, known, attrs \o set, n + 1)

\* the loop over known_related_objects: a relation that is cached on the
\* instance is skipped, one whose key is among the supplied objects is set
\* to that object, and a KeyError is passed over.  `attrs` are the
\* attributes the instance has so far.
RECURSIVE KnownRelatedAttrs(_, _, _, _)
KnownRelatedAttrs(model, known, attrs, n) ==
  IF n > Len(known) THEN <<>>
  ELSE LET field == known[n].field
           is_cached == \E j \in 1..Len(attrs) : attrs[j].k = field.name
           rel_obj_id ==
             IF \E j \in 1..Len(attrs) : attrs[j].k = field.attname
             THEN attrs[CHOOSE j \in 1..Len(attrs) : attrs[j].k = field.attname].v
             ELSE PyNone
           set == IF ~is_cached /\ rel_obj_id \in known[n].rel_objs
                  THEN <<[k |-> field.name,
                          v |-> HeldInstance(field.to, rel_obj_id)]>>
                  ELSE <<>>
       IN  set \o KnownRelatedAttrs(model, known, attrs \o set, n + 1)

\* _transform_object_to_handle_json_agg on an instance of obj's
\* fields_cache: None is returned as it is, and of an instance the model's
\* own fields are patched, nothing that is cached on it
TransformCached(model, obj) ==
  IF obj.t = "none" THEN obj
  ELSE PyEntity(
         [j \in 1..Len(obj.v) |->
            IF j <= Len(ModelFields(model))
            THEN [obj.v[j] EXCEPT
                    !.v = TransformField(FieldClass(model, obj.v[j].k), @)]
            ELSE obj.v[j]])

\* the model a relation of a model leads to
RelationTo(model, name) ==
  LET rels == Relations(model)
  IN  rels[CHOOSE j \in 1..Len(rels) : rels[j].name = name].to

\* obj._state.fields_cache after the last loop: every cached instance
\* patched
FieldsCache(model, cached) ==
  [j \in 1..Len(cached) |->
     [k |-> cached[j].k,
      v |-> TransformCached(RelationTo(model, cached[j].k), cached[j].v)]]

\* _get_instances_from_results_for_model_iterable: mappings and lists are
\* dumped back to text, each row becomes an instance built from the loaded
\* columns by position with the fields' converters applied, the selected
\* relations are populated, annotations are set on it as results_iter
\* converted them, then the model's fields are patched by field class, a
\* deferred one after it was loaded, the known related objects are set and
\* the cached instances are patched
GetInstancesFromResultsForModelIterable(queryset, results) ==
  LET ann == AnnotationSelect(queryset)
      loaded == LoadedFields(queryset)
      present == SelectSeq(ModelFields(queryset.model),
                           LAMBDA f : f \notin queryset.deferred
                                      \/ IsPatched(FieldClass(queryset.model, f)))
  IN  [i \in 1..Len(results) |->
         LET row == NewResults(results)[i]
             own ==
               [j \in 1..Len(present) |->
                  [k |-> present[j],
                   v |-> TransformField(
                           FieldClass(queryset.model, present[j]),
                           IF present[j] \in queryset.deferred
                           THEN RefreshFromDb(queryset.model, row[1], present[j])
                           ELSE FromDbValue(FieldClass(queryset.model, present[j]),
                                            row[LoadedPos(queryset, present[j])]).value)]]
               \o
               [a \in 1..Len(ann) |->
                  [k |-> ann[a].alias,
                   v |-> ConvertValue(ann[a].expr, row[Len(loaded) + a])]]
             populated == RelatedAttrs(queryset.model, queryset.select_related,
                                       row, Len(loaded) + Len(ann), 1)
             known == KnownRelatedAttrs(queryset.model,
                                        queryset.known_related_objects,
                                        own \o populated, 1)
         IN  PyEntity(own \o FieldsCache(queryset.model, populated \o known))]

\* the queries the instances of a queryset run while they are patched: one
\* for each deferred field the patch reads, on each instance
DeferredLoads(queryset, results) ==
  IF ~IsAggregateIntent(queryset)
     /\ queryset.kind # "QuerysetCountWrapper"
     /\ queryset.queryset.iterable_class = "ModelIterable"
  THEN Len(results) * Len(RefreshedFields(queryset.queryset))
  ELSE 0

\* a converter raises on some row of the results
ConvertersRaise(queryset, results) ==
  \E i \in 1..Len(results) :
     \E j \in 1..Len(LoadedFields(queryset)) :
        /\ j <= Len(results[i])
        /\ ~FromDbValue(FieldClass(queryset.model, LoadedFields(queryset)[j]),
                        NewResults(results)[i][j]).ok

\* row_dict[key] for a row object
RowGet(row_dict, key) ==
  IF \E j \in 1..Len(row_dict) : row_dict[j].k = key
  THEN [found |-> TRUE,
        v |-> row_dict[CHOOSE j \in 1..Len(row_dict) : row_dict[j].k = key].v]
  ELSE [found |-> FALSE, v |-> PyNone]

IterableClasses ==
  {"ModelIterable", "ValuesIterable", "FlatValuesListIterable", "ValuesListIterable"}

\* _convert_raw_results_to_final_queryset_results with the rows handed over
\* as they are, whatever the iterable class
ConvertRawResultsUncheckedShape(queryset, raw) ==
  [ok |-> TRUE, err |-> "", value |-> PyList([i \in 1..Len(raw) |-> PyDict(raw[i])])]

\* _convert_raw_results_to_final_queryset_results; ok is FALSE when the
\* function raises (IndexError or KeyError on the count row, ValueError on an
\* iterable class it does not know, IndexError on a row too short for the
\* model)
ConvertRawResultsToFinalQuerysetResults(queryset, raw) ==
  IF queryset.kind = "QuerysetCountWrapper"
  THEN IF raw = <<>> THEN [ok |-> FALSE, err |-> "IndexError", value |-> PyNone]
       ELSE IF ~RowGet(raw[1], "__count").found
       THEN [ok |-> FALSE, err |-> "KeyError", value |-> PyNone]
       ELSE [ok |-> TRUE, err |-> "", value |-> RowGet(raw[1], "__count").v]
  ELSE
    LET dq == queryset.queryset
        cls == dq.iterable_class
        rows ==
          CASE cls = "ModelIterable" ->
                 GetInstancesFromResultsForModelIterable(dq, raw)
            [] cls = "ValuesIterable" ->
                 [i \in 1..Len(raw) |-> PyDict(raw[i])]
            [] cls = "FlatValuesListIterable" ->
                 [i \in 1..Len(raw) |-> RowValues(raw[i])[1]]
            [] cls = "ValuesListIterable" ->
                 [i \in 1..Len(raw) |-> PyList(RowValues(raw[i]))]
            [] OTHER -> <<>>
        \* a row with fewer values than the instance takes makes from_db raise
        short ==
          /\ cls = "ModelIterable"
          /\ \E i \in 1..Len(raw) :
                Len(raw[i]) < Len(LoadedFields(dq)) + Len(AnnotationSelect(dq))
    IN  IF cls \notin IterableClasses
        THEN [ok |-> FALSE, err |-> "ValueError", value |-> PyNone]
        ELSE IF short
        THEN [ok |-> FALSE, err |-> "IndexError", value |-> PyNone]
        ELSE IF cls = "ModelIterable" /\ ConvertersRaise(dq, raw)
        THEN [ok |-> FALSE, err |-> "TypeError", value |-> PyNone]
        ELSE IF queryset.kind = "QuerysetGetOrNoneWrapper"
        THEN [ok |-> TRUE, err |-> "",
              value |-> IF rows # <<>> THEN rows[1] ELSE PyNone]
        ELSE [ok |-> TRUE, err |-> "", value |-> PyList(rows)]

\* _get_empty_queryset_value
GetEmptyQuerysetValue(queryset) ==
  IF queryset.kind = "QuerysetCountWrapper" THEN DbInt(0)
  ELSE IF queryset.kind = "QuerysetGetOrNoneWrapper" THEN PyNone
  ELSE PyList(<<>>)

\* RESULT_PLACEHOLDER = object()
RESULT_PLACEHOLDER == [t |-> "placeholder", v |-> 0]

\* the value of an Aggregate intent given as a list of rows
ConvertAggregateResultAsRows(queryset, raw) ==
  [ok |-> TRUE, err |-> "", value |-> PyList([i \in 1..Len(raw) |-> PyDict(raw[i])])]

\* The value of an Aggregate intent: the mapping from each declared name to
\* the member of the JSON object, a sum coerced to an exact decimal; ok is
\* FALSE when the response holds no object or lacks a member.
ConvertAggregateResult(queryset, raw) ==
  IF raw = <<>> THEN [ok |-> FALSE, err |-> "TypeError", value |-> PyNone]
  ELSE IF \E j \in 1..Len(queryset.aggregates) :
             ~RowGet(raw[1], queryset.aggregates[j].name).found
  THEN [ok |-> FALSE, err |-> "KeyError", value |-> PyNone]
  ELSE [ok |-> TRUE, err |-> "",
        value |-> PyDict([j \in 1..Len(queryset.aggregates) |->
                    LET member == RowGet(raw[1], queryset.aggregates[j].name).v
                    IN  [k |-> queryset.aggregates[j].name,
                         v |-> IF queryset.aggregates[j].func = "Sum"
                                  /\ member.t # "none"
                               THEN DecimalOfStr(member) ELSE member]])]

\* the value of a statically empty Aggregate intent given as the empty list
GetEmptyAggregateValueAsList(queryset) == PyList(<<>>)

\* The value of a statically empty Aggregate intent: the mapping from each
\* declared name to the aggregate's value over no row
GetEmptyAggregateValue(queryset) ==
  PyDict([j \in 1..Len(queryset.aggregates) |->
            [k |-> queryset.aggregates[j].name,
             v |-> FoldAggregate(queryset.aggregates[j], <<>>)]])

\* the value of any intent from its part of the response, and without one
RehydratedValue(queryset, raw) ==
  IF IsAggregateIntent(queryset) THEN ConvertAggregateResult(queryset, raw)
  ELSE ConvertRawResultsToFinalQuerysetResults(queryset, raw)

EmptyValue(queryset) ==
  IF IsAggregateIntent(queryset) THEN GetEmptyAggregateValue(queryset)
  ELSE GetEmptyQuerysetValue(queryset)

\* --------------------------------------------------- the direct path
\* list(queryset): the same SELECT with its parameters bound by the driver,
\* values of the columns' own types, shaped by the iterable class.

BoundMatches(row, where) ==
  \A j \in 1..Len(where) : where[j].val.s = ColumnText(row[where[j].col])

DirectRows(q) ==
  IF q.empty THEN <<>>
  ELSE EvalSelect(q, SelectSeq(ModelTable(q.model),
                               LAMBDA r : BoundMatches(r, q.where)), FALSE)

Materialize(q) ==
  LET rows == DirectRows(q)
      cls == q.iterable_class
  IN  PyList(
        CASE cls = "ModelIterable" ->
               [i \in 1..Len(rows) |->
                  LET width == Len(FieldCols(q)) + Len(AnnotationSelect(q))
                      own == SubSeq(rows[i], 1, width)
                      populated == RelatedAttrs(q.model, q.select_related,
                                                RowValues(rows[i]), width, 1)
                      known == KnownRelatedAttrs(q.model, q.known_related_objects,
                                                 own \o populated, 1)
                  IN  PyEntity(own \o populated \o known)]
          [] cls = "ValuesIterable" ->
               [i \in 1..Len(rows) |-> PyDict(rows[i])]
          [] cls = "FlatValuesListIterable" ->
               [i \in 1..Len(rows) |-> RowValues(rows[i])[1]]
          [] OTHER ->
               [i \in 1..Len(rows) |-> PyTuple(RowValues(rows[i]))])

\* ------------------------------------------------------------- the inputs

\* the characters of string parameters: a letter, the quote, the backslash
\* and the percent sign
Alphabet == {"a", "'", "\\", "%"}

Strings == UNION {[1..n -> Alphabet] : n \in 0..MaxStrLen}

\* parameters of the types the loop accepts, and of types it does not
AllowedParams ==
  {StrParam(s) : s \in Strings}
  \cup {IntParam(1), IntParam(0 - 1),
        Param("float", <<"5", "0", ".", "2", "2">>),
        Param("UUID", <<"u">>), Param("datetime", <<"d">>),
        Param("bool", <<"T", "r", "u", "e">>)}

RefusedParams ==
  {Param("Decimal", <<"5", "0", ".", "2", "2">>), Param("date", <<"d">>),
   Param("NoneType", <<"N">>), Param("bytes", <<"b">>)}

ParamColumn(p) ==
  CASE p.t = "int" -> "id"
    [] p.t \in {"float", "Decimal"} -> "selling_price"
    [] OTHER -> "name"

MatchOne == Filter(AllObjects, "id", IntParam(1))
MatchNone == Filter(AllObjects, "id", IntParam(0 - 1))
AlwaysEmpty == FilterInNothing(AllObjects)

\* querysets with one or two bound parameters
ParamQuerysets ==
  {Filter(AllObjects, ParamColumn(p), p) : p \in AllowedParams \cup RefusedParams}
  \cup {Filter(MatchOne, "name", p) :
          p \in {StrParam(<<"a">>), StrParam(<<"a", "'">>), Param("date", <<"d">>)}}
  \cup {Filter(AlwaysEmpty, "selling_price",
                Param("Decimal", <<"5", "0", ".", "2", "2">>))}

\* querysets of every result shape, with and without annotations
Shaped(q) ==
  {q, Annotate(q, ValueTen), Annotate(q, DoubledPrice), Annotate(q, ProductCount)}
  \cup {Values(q, f) : f \in {<<"id">>, <<"selling_price">>, <<"name", "selling_price">>}}
  \cup {Annotate(Values(q, <<"name">>), ValueTen),
        Annotate(Annotate(Values(q, <<"name">>), TotalPrice), ProductCount)}
  \cup {ValuesList(q, f, FALSE) :
          f \in {<<"id">>, <<"selling_price">>, <<"name", "selling_price">>}}
  \cup {ValuesList(q, <<f>>, TRUE) : f \in {"id", "name", "selling_price"}}
  \cup {[q EXCEPT !.iterable_class = "CustomIterable"]}

ShapedQuerysets == Shaped(AllObjects) \cup Shaped(MatchOne) \cup Shaped(MatchNone)

\* querysets for which counting takes each branch of the rewrite
CountedQuerysets ==
  {AllObjects, MatchOne, MatchNone, AlwaysEmpty,
   Filter(AllObjects, "name", StrParam(<<"a">>)),
   SetLimits(AllObjects, 0, 2), SetLimits(AllObjects, 1, 3),
   Distinct(AllObjects), Distinct(Values(AllObjects, <<"name">>)),
   Distinct(AlwaysEmpty),
   Annotate(AllObjects, ValueTen), Annotate(AllObjects, ProductCount),
   Annotate(Values(AllObjects, <<"name">>), ProductCount),
   [AllObjects EXCEPT !.combinator = TRUE]}

FirstQuerysets ==
  {AllObjects, MatchOne, MatchNone, AlwaysEmpty,
   Filter(AllObjects, "name", StrParam(<<"a">>)),
   SetLimits(AllObjects, 1, 3), SetLimits(AllObjects, 2, 2),
   Values(AllObjects, <<"name">>), ValuesList(AllObjects, <<"id">>, TRUE),
   ValuesList(MatchNone, <<"id", "name">>, FALSE)}

\* the intents batches of every length up to MaxBatch are made of
CoreIntents ==
  {PlainQueryset(AllObjects), PlainQueryset(MatchOne), PlainQueryset(AlwaysEmpty),
   QuerysetCountWrapper(AllObjects), QuerysetCountWrapper(MatchOne),
   QuerysetCountWrapper(AlwaysEmpty),
   QuerysetGetOrNoneWrapper(AllObjects), QuerysetGetOrNoneWrapper(MatchNone),
   QuerysetGetOrNoneWrapper(AlwaysEmpty)}

\* querysets over the model of every patched field class
LedgerQuerysets ==
  {AllRecords, FilterInNothing(AllRecords),
   Only(AllRecords, {"amount", "payload"}), Only(AllObjects, {"name"}),
   Only(MatchNone, {"name"}),
   Filter(AllRecords, "id", IntParam(1)), Filter(AllRecords, "id", IntParam(2)),
   Values(AllRecords, <<"amount", "payload">>),
   Values(AllRecords, <<"uid", "day", "at">>),
   ValuesList(AllRecords, <<"amount">>, TRUE),
   ValuesList(AllRecords, <<"fee", "payload">>, FALSE)}

\* querysets over the model whose JSON column holds scalars
NoteQuerysets ==
  {AllNotes} \cup {Filter(AllNotes, "id", IntParam(n)) : n \in 1..4}

\* querysets with select_related, one and two relations deep, over a null
\* relation too, and over the model with a date and a timestamp
RelatedQuerysets ==
  {SelectRelated(Filter(AllObjects, "id", IntParam(1)), {<<"store">>, <<"category">>}),
   SelectRelated(AllObjects, {<<"store">>}),
   SelectRelated(AllObjects, {<<"category", "store">>}),
   SelectRelated(AllCategories, {<<"store">>}),
   AllStores, AllCategories}

\* querysets of related managers: the products of store 1, those or-ed with
\* all products of a manager of store 2, with select_related on top, the
\* categories or-ed likewise, and products with a known category and a known
\* store that select_related loads too
KnownQuerysets ==
  {KnownRelated(Filter(AllObjects, "store_id", IntParam(1)), "store", {1}),
   KnownRelated(AllObjects, "store", {2}),
   SelectRelated(KnownRelated(AllObjects, "store", {1}), {<<"store">>}),
   KnownRelated(AllCategories, "store", {1}),
   SelectRelated(KnownRelated(AllObjects, "category", {1}), {<<"category">>}),
   SelectRelated(KnownRelated(KnownRelated(AllObjects, "category", {2}),
                              "store", {1}),
                 {<<"store">>})}

\* the aggregates declared in the tests: a sum and a count
TotalPriceAggregate == [name |-> "total_price", func |-> "Sum", col |-> "selling_price"]
CountAggregate == [name |-> "count", func |-> "Count", col |-> "id"]

AggregateIntents ==
  {QuerysetAggregateWrapper(q, a) :
     q \in {AllObjects, MatchOne, MatchNone, AlwaysEmpty,
            Filter(AllObjects, "name", Param("date", <<"d">>))},
     a \in {<<TotalPriceAggregate>>, <<TotalPriceAggregate, CountAggregate>>}}

\* querysets whose iterable class is none of the four the service knows
CustomShaped ==
  {[q EXCEPT !.iterable_class = "CustomIterable"] :
     q \in {AllObjects, AlwaysEmpty, Filter(AllObjects, "name", Param("date", <<"d">>))}}

\* the intents that come alone or next to one companion
RichIntents ==
  AggregateIntents \cup
  {PlainQueryset(q) : q \in CustomShaped} \cup
  {QuerysetGetOrNoneWrapper(q) : q \in CustomShaped} \cup
  {PlainQueryset(q) : q \in ParamQuerysets \cup ShapedQuerysets \cup LedgerQuerysets
                            \cup NoteQuerysets \cup RelatedQuerysets
                            \cup KnownQuerysets}
  \cup {QuerysetCountWrapper(q) : q \in CountedQuerysets}
  \cup {QuerysetGetOrNoneWrapper(q) : q \in FirstQuerysets}

\* the intents of a batch bound to the database `alias`
AliasIntents(alias) ==
  {PlainQueryset(Using(AllObjects, alias)),
   PlainQueryset(Using(AlwaysEmpty, alias)),
   PlainQueryset(Using(AllStores, alias)),
   QuerysetCountWrapper(Using(MatchOne, alias)),
   QuerysetGetOrNoneWrapper(Using(MatchOne, alias))}

\* batches whose intents are bound to a second alias, or to both
AliasBatches ==
  {<<x>> : x \in AliasIntents("replica")}
  \cup {<<x, y>> : x \in AliasIntents("replica"),
                   y \in AliasIntents("default") \cup AliasIntents("replica")}
  \cup {<<y, x>> : x \in AliasIntents("replica"), y \in AliasIntents("default")}

Companions ==
  {PlainQueryset(AllObjects), PlainQueryset(AlwaysEmpty),
   QuerysetCountWrapper(MatchOne)}

Batches ==
  UNION {[1..n -> CoreIntents] : n \in 0..MaxBatch}
  \cup {<<r>> : r \in RichIntents}
  \cup {<<c, r>> : c \in Companions, r \in RichIntents}
  \cup {<<r, c>> : c \in Companions, r \in RichIntents}
  \cup {<<PlainQueryset(Filter(AllObjects, "name", p)),
          PlainQueryset(Filter(AllObjects, "name", r))>> :
            p \in {Param("bool", <<"T", "r", "u", "e">>), Param("UUID", <<"u">>)},
            r \in RefusedParams}
  \cup {<<PlainQueryset(ValuesList(AllObjects, <<"id">>, TRUE)),
          PlainQueryset(ValuesList(AllObjects, <<"name", "selling_price">>, FALSE))>>}
  \cup AliasBatches

\* ------------------------------------------------------ the state machine

VARIABLES
  querysets,            \* self.querysets
  pc,                   \* where execute stands
  django_sqls_for_querysets,
  final_result_list,
  raw_sql,              \* the pairs of json_build_object, <<>> when not built
  raw_sql_result_dict,
  final_result,
  index,
  executions,           \* times cursor.execute was handed the statement
  lookups,              \* the keys looked up in raw_sql_result_dict so far
  error,                \* the exception execute raised, "" when none
  returned,             \* what execute returned, <<>> until it does
  cursor_held,          \* inside `with connections["default"].cursor()`
  cursors_acquired,     \* cursors opened so far
  events,               \* the calls made so far, in order
  calls,                \* which call of execute on this batch this is
  previous              \* what the call before returned, NoResult if nothing

vars ==
  <<querysets, pc, django_sqls_for_querysets, final_result_list, raw_sql,
    raw_sql_result_dict, final_result, index, executions, lookups, error,
    returned, cursor_held, cursors_acquired, events, calls, previous>>

\* what no step of one call of execute touches
call_vars == <<calls, previous>>

\* no list: the call before raised, or there was none
NoResult == [t |-> "no result", v |-> <<>>]

\* what no step outside the with block touches
cursor_vars == <<cursor_held, cursors_acquired>>

\* a call, the phase of execute it is made in and the database alias it is
\* made with
EventUsing(op, phase, using) == [op |-> op, phase |-> phase, using |-> using]

\* a call that names no database
Event(op, phase) == EventUsing(op, phase, "")

Init ==
  /\ querysets \in Batches
  /\ pc = "compile"
  /\ django_sqls_for_querysets = <<>>
  /\ final_result_list = <<>>
  /\ raw_sql = <<>>
  /\ raw_sql_result_dict = <<>>
  /\ final_result = <<>>
  /\ index = 0
  /\ executions = 0
  /\ lookups = <<>>
  /\ error = ""
  /\ returned = <<>>
  /\ cursor_held = FALSE
  /\ cursors_acquired = 0
  /\ events = <<>>
  /\ calls = 1
  /\ previous = NoResult

IsPlaceholder(result) == result.t = "placeholder"

\* CompileQueryset with the count query built on the queryset's own query,
\* not on a clone of it
CompileQuerysetInPlace ==
  /\ pc = "compile"
  /\ Len(django_sqls_for_querysets) < Len(querysets)
  /\ LET n == Len(django_sqls_for_querysets) + 1
         sql == CompiledFragment(querysets[n])
     IN  /\ sql.kind \in {"empty", "json_agg", "aggregate"}
         /\ django_sqls_for_querysets' = Append(django_sqls_for_querysets, sql)
         /\ querysets' =
              IF querysets[n].kind = "QuerysetCountWrapper"
              THEN [querysets EXCEPT
                      ![n].queryset.annotations = Append(@, CountStar),
                      ![n].given.annotations = Append(@, CountStar)]
              ELSE querysets
  /\ events' = Append(events,
       EventUsing("as_sql", "compile",
         querysets[Len(django_sqls_for_querysets) + 1].queryset.db))
  /\ UNCHANGED <<call_vars, pc, final_result_list, raw_sql, raw_sql_result_dict,
                 final_result, index, executions, lookups, error, returned,
                 cursor_vars>>

\* One turn of the list comprehension over self.querysets: the next
\* queryset compiles to its fragment ("" when it can match nothing).
CompileQueryset ==
  /\ pc = "compile"
  /\ Len(django_sqls_for_querysets) < Len(querysets)
  /\ LET sql == CompiledFragment(
                  querysets[Len(django_sqls_for_querysets) + 1])
     IN  /\ sql.kind \in {"empty", "json_agg", "aggregate"}
         /\ django_sqls_for_querysets' = Append(django_sqls_for_querysets, sql)
  /\ events' = Append(events,
       EventUsing("as_sql", "compile",
         querysets[Len(django_sqls_for_querysets) + 1].queryset.db))
  /\ UNCHANGED <<call_vars, querysets, pc, final_result_list, raw_sql, raw_sql_result_dict,
                 final_result, index, executions, lookups, error, returned,
                 cursor_vars>>

\* CompileRaises with the exception swallowed: the queryset is taken as one
\* that matches nothing
CompileRaisesSwallowed ==
  /\ pc = "compile"
  /\ Len(django_sqls_for_querysets) < Len(querysets)
  /\ CompiledFragment(querysets[Len(django_sqls_for_querysets) + 1]).kind
       \notin {"empty", "json_agg", "aggregate"}
  /\ django_sqls_for_querysets' = Append(django_sqls_for_querysets, EmptySql)
  /\ events' = Append(events,
       EventUsing("as_sql", "compile",
         querysets[Len(django_sqls_for_querysets) + 1].queryset.db))
  /\ UNCHANGED <<call_vars, querysets, pc, final_result_list, raw_sql, raw_sql_result_dict,
                 final_result, index, executions, lookups, error, returned,
                 cursor_vars>>

\* The same turn when compiling raises: ValueError for a parameter outside
\* the accepted types, TypeError from the aggregate compiler's as_sql.
CompileRaises ==
  /\ pc = "compile"
  /\ Len(django_sqls_for_querysets) < Len(querysets)
  /\ LET sql == CompiledFragment(
                  querysets[Len(django_sqls_for_querysets) + 1])
     IN  /\ sql.kind \notin {"empty", "json_agg", "aggregate"}
         /\ error' = sql.kind
  /\ pc' = "failed"
  /\ events' = Append(events,
       EventUsing("as_sql", "compile",
         querysets[Len(django_sqls_for_querysets) + 1].queryset.db))
  /\ UNCHANGED <<call_vars, querysets, django_sqls_for_querysets, final_result_list, raw_sql,
                 raw_sql_result_dict, final_result, index, executions, lookups,
                 returned, cursor_vars>>

\* The first loop of execute: the empty value of every queryset whose
\* fragment is "", the placeholder for every other.
FillPlaceholders ==
  /\ pc = "compile"
  /\ Len(django_sqls_for_querysets) = Len(querysets)
  /\ final_result_list' =
       [i \in 1..Len(querysets) |->
          IF ~Truthy(django_sqls_for_querysets[i])
          THEN EmptyValue(querysets[i])
          ELSE RESULT_PLACEHOLDER]
  /\ pc' = "build"
  /\ UNCHANGED <<call_vars, querysets, django_sqls_for_querysets, raw_sql,
                 raw_sql_result_dict, final_result, index, executions, lookups,
                 error, returned, cursor_vars, events>>

\* `if non_empty_django_sqls_for_querysets:` the statement is put together
BuildStatement ==
  /\ pc = "build"
  /\ SelectSeq(django_sqls_for_querysets, Truthy) # <<>>
  /\ raw_sql' = BuildRawSql(django_sqls_for_querysets)
  /\ pc' = "acquire"
  /\ UNCHANGED <<call_vars, querysets, django_sqls_for_querysets, final_result_list,
                 raw_sql_result_dict, final_result, index, executions, lookups,
                 error, returned, cursor_vars, events>>

\* the else branch: every queryset is always empty, nothing is executed
NoStatement ==
  /\ pc = "build"
  /\ SelectSeq(django_sqls_for_querysets, Truthy) = <<>>
  /\ raw_sql_result_dict' = <<>>
  /\ pc' = "rehydrate"
  /\ UNCHANGED <<call_vars, querysets, django_sqls_for_querysets, final_result_list, raw_sql,
                 final_result, index, executions, lookups, error, returned,
                 cursor_vars, events>>

\* `with connections["default"].cursor() as cursor:` the block is entered
AcquireCursor ==
  /\ pc = "acquire"
  /\ cursor_held' = TRUE
  /\ cursors_acquired' = cursors_acquired + 1
  /\ pc' = "execute"
  /\ UNCHANGED <<call_vars, querysets, django_sqls_for_querysets, final_result_list, raw_sql,
                 raw_sql_result_dict, final_result, index, executions, lookups,
                 error, returned, events>>

\* ExecuteStatement on the connection of the first queryset's alias
ExecuteStatementOnOwnAlias ==
  /\ pc = "execute"
  /\ DriverAccepts(raw_sql)
  /\ EngineAccepts(ConvertedSql(raw_sql))
  /\ executions' = executions + 1
  /\ events' = Append(events,
       EventUsing("execute", "execute", querysets[1].queryset.db))
  /\ pc' = "fetch"
  /\ UNCHANGED <<call_vars, querysets, django_sqls_for_querysets, final_result_list, raw_sql,
                 raw_sql_result_dict, final_result, index, lookups, error,
                 returned, cursor_vars>>

\* cursor.execute(raw_sql, params={}) on the cursor of connections["default"]
\* succeeds
ExecuteStatement ==
  /\ pc = "execute"
  /\ DriverAccepts(raw_sql)
  /\ EngineAccepts(ConvertedSql(raw_sql))
  /\ executions' = executions + 1
  /\ events' = Append(events, EventUsing("execute", "execute", "default"))
  /\ pc' = "fetch"
  /\ UNCHANGED <<call_vars, querysets, django_sqls_for_querysets, final_result_list, raw_sql,
                 raw_sql_result_dict, final_result, index, lookups, error,
                 returned, cursor_vars>>

\* ExecuteRaises with one more try after the first failure
ExecuteRaisesRetryOnce ==
  /\ pc = "execute"
  /\ executions' = executions + 1
  /\ \/ /\ ~DriverAccepts(raw_sql)
        /\ error' = "ProgrammingError"
     \/ /\ DriverAccepts(raw_sql)
        /\ ~EngineAccepts(ConvertedSql(raw_sql))
        /\ error' = "ProgrammingError"
     \/ /\ DriverAccepts(raw_sql)
        /\ error' = "OperationalError"
  /\ events' = Append(events, EventUsing("execute", "execute", "default"))
  /\ pc' = IF executions = 0 THEN "execute" ELSE "unwind"
  /\ UNCHANGED <<call_vars, querysets, django_sqls_for_querysets, final_result_list, raw_sql,
                 raw_sql_result_dict, final_result, index, lookups, returned,
                 cursor_vars>>

\* cursor.execute raises: the driver finds a placeholder it cannot fill, the
\* engine rejects the statement, or the call is cancelled or times out.  The
\* exception leaves execute as it is; nothing catches it.
ExecuteRaises ==
  /\ pc = "execute"
  /\ executions' = executions + 1
  /\ \/ /\ ~DriverAccepts(raw_sql)
        /\ error' = "ProgrammingError"
     \/ /\ DriverAccepts(raw_sql)
        /\ ~EngineAccepts(ConvertedSql(raw_sql))
        /\ error' = "ProgrammingError"
     \/ /\ DriverAccepts(raw_sql)
        /\ error' = "OperationalError"
  /\ events' = Append(events, EventUsing("execute", "execute", "default"))
  /\ pc' = "unwind"
  /\ UNCHANGED <<call_vars, querysets, django_sqls_for_querysets, final_result_list, raw_sql,
                 raw_sql_result_dict, final_result, index, lookups, returned,
                 cursor_vars>>

\* raw_sql_result_dict = cursor.fetchone()[0]
FetchOne ==
  /\ pc = "fetch"
  /\ raw_sql_result_dict' = EngineResponse(ConvertedSql(raw_sql))
  /\ pc' = "release"
  /\ UNCHANGED <<call_vars, querysets, django_sqls_for_querysets, final_result_list, raw_sql,
                 final_result, index, executions, lookups, error, returned,
                 cursor_vars, events>>

\* cursor.fetchone() raises: the connection is lost before the row arrives
FetchRaises ==
  /\ pc = "fetch"
  /\ error' = "OperationalError"
  /\ pc' = "unwind"
  /\ UNCHANGED <<call_vars, querysets, django_sqls_for_querysets, final_result_list, raw_sql,
                 raw_sql_result_dict, final_result, index, executions, lookups,
                 returned, cursor_vars, events>>

\* the with block is left at its end: the cursor is closed
ReleaseCursor ==
  /\ pc = "release"
  /\ cursor_held' = FALSE
  /\ pc' = "rehydrate"
  /\ UNCHANGED <<call_vars, querysets, django_sqls_for_querysets, final_result_list, raw_sql,
                 raw_sql_result_dict, final_result, index, executions, lookups,
                 error, returned, cursors_acquired, events>>

\* the with block is left by an exception: the cursor is closed and the
\* exception goes on to the caller
ReleaseCursorOnError ==
  /\ pc = "unwind"
  /\ cursor_held' = FALSE
  /\ pc' = "failed"
  /\ UNCHANGED <<call_vars, querysets, django_sqls_for_querysets, final_result_list, raw_sql,
                 raw_sql_result_dict, final_result, index, executions, lookups,
                 error, returned, cursors_acquired, events>>

\* the calls of one conversion: for a queryset of instances,
\* compiler.as_sql() before the rows are read and a query for each deferred
\* field the patch reads
ConversionEvents(queryset, results) ==
  (IF ~IsAggregateIntent(queryset)
      /\ queryset.kind # "QuerysetCountWrapper"
      /\ queryset.queryset.iterable_class = "ModelIterable"
   THEN <<EventUsing("as_sql", "rehydrate", queryset.queryset.db)>>
   ELSE <<>>)
  \o <<Event("convert", "rehydrate")>>
  \o [k \in 1..DeferredLoads(queryset, results) |->
        EventUsing("refresh", "rehydrate", queryset.queryset.db)]

\* RehydrateEmpty without the `is not RESULT_PLACEHOLDER` test: whatever
\* the first loop left at the position is appended
RehydrateEmptyUntested ==
  /\ pc = "rehydrate"
  /\ Len(final_result) < Len(querysets)
  /\ final_result' = Append(final_result, final_result_list[Len(final_result) + 1])
  /\ events' = Append(events, Event("append", "rehydrate"))
  /\ UNCHANGED <<call_vars, querysets, pc, django_sqls_for_querysets,
                 final_result_list, raw_sql, raw_sql_result_dict, index,
                 executions, lookups, error, returned, cursor_vars>>

\* A turn of the last loop for a queryset whose result is already known
RehydrateEmpty ==
  /\ pc = "rehydrate"
  /\ Len(final_result) < Len(querysets)
  /\ ~IsPlaceholder(final_result_list[Len(final_result) + 1])
  /\ final_result' = Append(final_result, final_result_list[Len(final_result) + 1])
  /\ events' = Append(events, Event("append", "rehydrate"))
  /\ UNCHANGED <<call_vars, querysets, pc, django_sqls_for_querysets, final_result_list,
                 raw_sql, raw_sql_result_dict, index, executions, lookups, error,
                 returned, cursor_vars>>

\* RehydrateFetched with the `index += 1` left out
RehydrateFetchedIndexKept ==
  /\ pc = "rehydrate"
  /\ Len(final_result) < Len(querysets)
  /\ IsPlaceholder(final_result_list[Len(final_result) + 1])
  /\ LET got == DictGet(raw_sql_result_dict, PyStrNat(index))
         conv == RehydratedValue(
                   querysets[Len(final_result) + 1], got.rows)
     IN  /\ got.found
         /\ conv.ok
         /\ final_result' = Append(final_result, conv.value)
  /\ cursors_acquired' =
       cursors_acquired + DeferredLoads(querysets[Len(final_result) + 1],
                            DictGet(raw_sql_result_dict, PyStrNat(index)).rows)
  /\ lookups' = Append(lookups, PyStrNat(index))
  /\ index' = index
  /\ events' = events \o ConversionEvents(querysets[Len(final_result) + 1],
                   DictGet(raw_sql_result_dict, PyStrNat(index)).rows)
  /\ UNCHANGED <<call_vars, querysets, pc, django_sqls_for_querysets, final_result_list,
                 raw_sql, raw_sql_result_dict, executions, error, returned,
                 cursor_held>>

\* RehydrateFetched with the fragment compiled again, when its result is
\* needed
RehydrateFetchedRecompiling ==
  /\ pc = "rehydrate"
  /\ Len(final_result) < Len(querysets)
  /\ IsPlaceholder(final_result_list[Len(final_result) + 1])
  /\ LET got == DictGet(raw_sql_result_dict, PyStrNat(index))
         conv == RehydratedValue(
                   querysets[Len(final_result) + 1], got.rows)
     IN  /\ got.found
         /\ conv.ok
         /\ final_result' = Append(final_result, conv.value)
  /\ cursors_acquired' =
       cursors_acquired + DeferredLoads(querysets[Len(final_result) + 1],
                            DictGet(raw_sql_result_dict, PyStrNat(index)).rows)
  /\ lookups' = Append(lookups, PyStrNat(index))
  /\ index' = index + 1
  /\ events' = Append(events, Event("as_sql", "compile"))
                 \o ConversionEvents(querysets[Len(final_result) + 1],
                   DictGet(raw_sql_result_dict, PyStrNat(index)).rows)
  /\ UNCHANGED <<call_vars, querysets, pc, django_sqls_for_querysets, final_result_list,
                 raw_sql, raw_sql_result_dict, executions, error, returned,
                 cursor_held>>

\* A turn of the last loop for a placeholder: raw_sql_result_dict[str(index)]
\* is converted and appended, and index moves on
RehydrateFetched ==
  /\ pc = "rehydrate"
  /\ Len(final_result) < Len(querysets)
  /\ IsPlaceholder(final_result_list[Len(final_result) + 1])
  /\ LET got == DictGet(raw_sql_result_dict, PyStrNat(index))
         conv == RehydratedValue(
                   querysets[Len(final_result) + 1], got.rows)
     IN  /\ got.found
         /\ conv.ok
         /\ final_result' = Append(final_result, conv.value)
  /\ cursors_acquired' =
       cursors_acquired + DeferredLoads(querysets[Len(final_result) + 1],
                            DictGet(raw_sql_result_dict, PyStrNat(index)).rows)
  /\ lookups' = Append(lookups, PyStrNat(index))
  /\ index' = index + 1
  /\ events' = events \o ConversionEvents(querysets[Len(final_result) + 1],
                   DictGet(raw_sql_result_dict, PyStrNat(index)).rows)
  /\ UNCHANGED <<call_vars, querysets, pc, django_sqls_for_querysets, final_result_list,
                 raw_sql, raw_sql_result_dict, executions, error, returned,
                 cursor_held>>

\* The same turn when the lookup or the conversion raises
RehydrateRaises ==
  /\ pc = "rehydrate"
  /\ Len(final_result) < Len(querysets)
  /\ IsPlaceholder(final_result_list[Len(final_result) + 1])
  /\ LET got == DictGet(raw_sql_result_dict, PyStrNat(index))
         conv == RehydratedValue(
                   querysets[Len(final_result) + 1], got.rows)
     IN  /\ ~got.found \/ ~conv.ok
         /\ error' = IF ~got.found THEN "KeyError" ELSE conv.err
         /\ events' = IF got.found
                      THEN events \o ConversionEvents(
                                         querysets[Len(final_result) + 1], <<>>)
                      ELSE events
  /\ lookups' = Append(lookups, PyStrNat(index))
  /\ pc' = "failed"
  /\ UNCHANGED <<call_vars, querysets, django_sqls_for_querysets, final_result_list, raw_sql,
                 raw_sql_result_dict, final_result, index, executions, returned,
                 cursor_vars>>

\* return final_result
Return ==
  /\ pc = "rehydrate"
  /\ Len(final_result) = Len(querysets)
  /\ returned' = final_result
  /\ pc' = "done"
  /\ UNCHANGED <<call_vars, querysets, django_sqls_for_querysets, final_result_list, raw_sql,
                 raw_sql_result_dict, final_result, index, executions, lookups,
                 error, cursor_vars, events>>

\* The caller calls execute once more on the same instance, after it
\* returned or raised: every local of execute starts anew, self.querysets
\* is what it is
ExecuteAgain ==
  /\ pc \in {"done", "failed"}
  /\ calls < MaxCalls
  /\ calls' = calls + 1
  /\ previous' = IF pc = "done" THEN [t |-> "list", v |-> returned] ELSE NoResult
  /\ pc' = "compile"
  /\ django_sqls_for_querysets' = <<>>
  /\ final_result_list' = <<>>
  /\ raw_sql' = <<>>
  /\ raw_sql_result_dict' = <<>>
  /\ final_result' = <<>>
  /\ index' = 0
  /\ executions' = 0
  /\ lookups' = <<>>
  /\ error' = ""
  /\ returned' = <<>>
  /\ cursors_acquired' = 0
  /\ events' = <<>>
  /\ UNCHANGED <<querysets, cursor_held>>

Next ==
  \/ CompileQueryset
  \/ CompileRaises
  \/ FillPlaceholders
  \/ BuildStatement
  \/ NoStatement
  \/ AcquireCursor
  \/ ExecuteStatement
  \/ ExecuteRaises
  \/ FetchOne
  \/ FetchRaises
  \/ ReleaseCursor
  \/ ReleaseCursorOnError
  \/ RehydrateEmpty
  \/ RehydrateFetched
  \/ RehydrateRaises
  \/ Return
  \/ ExecuteAgain

Spec == Init /\ [][Next]_vars

\* ------------------------------------------------------------ properties

\* two Python values are equal and of equal types, element by element
RECURSIVE SameValue(_, _)
SameValue(a, b) ==
  /\ a.t = b.t
  /\ CASE a.t \in {"list", "tuple"} ->
            /\ Len(a.v) = Len(b.v)
            /\ \A i \in 1..Len(a.v) : SameValue(a.v[i], b.v[i])
       [] a.t \in {"dict", "entity"} ->
            /\ Len(a.v) = Len(b.v)
            /\ \A i \in 1..Len(a.v) :
                  a.v[i].k = b.v[i].k /\ SameValue(a.v[i].v, b.v[i].v)
       [] OTHER -> a = b

N == Len(querysets)

\* the number of querysets before position i whose fragment is not ""
RECURSIVE Rank(_)
Rank(i) ==
  IF i <= 1 THEN 0
  ELSE Rank(i - 1) + (IF Truthy(django_sqls_for_querysets[i - 1]) THEN 1 ELSE 0)

NonEmptyCount == Rank(N + 1)

\* what the engine answers to the fragment of queryset i taken alone, as the
\* driver hands it over
OwnRows(i) ==
  FragmentResponse(ConvertedSql(<<[key |-> <<"'", "0", "'">>,
                                   sql |-> django_sqls_for_querysets[i]]>>)[1].sql)

\* the result owed to queryset i: its empty value, or its own rows converted
OwnResult(i) ==
  IF ~Truthy(django_sqls_for_querysets[i])
  THEN EmptyValue(querysets[i])
  ELSE RehydratedValue(querysets[i], OwnRows(i)).value

\* C1: a successful execute returns exactly one result per queryset, and the
\* result at position i is the result of the queryset at position i.
C1_OneResultPerIntentInOrder ==
  pc = "done" =>
    /\ Len(returned) = N
    /\ \A i \in 1..N : SameValue(returned[i], OwnResult(i))

\* a three-queryset batch of three kinds, one of them always empty, returned
C1_Witness ==
  /\ pc = "done"
  /\ N = 3
  /\ querysets[1].kind = "QuerysetGetOrNoneWrapper"
  /\ querysets[2].kind = "QuerySet" /\ ~Truthy(django_sqls_for_querysets[2])
  /\ querysets[3].kind = "QuerysetCountWrapper"
  /\ returned[1].t = "entity" /\ returned[3].t = "int"

\* the queries run so far by instances loading a deferred field
RefreshQueries == Cardinality({a \in 1..Len(events) : events[a].op = "refresh"})

\* C2: a successful execute hands exactly one statement to the cursor when a
\* fragment is non-empty and none when all are empty, and rehydration adds no
\* execution.
C2_OneExecutionOrNone ==
  pc \in {"rehydrate", "done"} =>
    /\ executions = (IF NonEmptyCount > 0 THEN 1 ELSE 0)
    /\ RefreshQueries = 0

\* C3: the k-th non-empty fragment in input order stands in the statement
\* under the key str(k), no empty fragment is in the statement, and the
\* result at that queryset's position comes from the response entry under
\* that same key.
C3_SequentialKeys ==
  /\ pc \in {"acquire", "execute", "fetch", "release", "rehydrate", "done"}
     /\ NonEmptyCount > 0 =>
       /\ Len(raw_sql) = NonEmptyCount
       /\ \A k \in 1..Len(raw_sql) : Truthy(raw_sql[k].sql)
       /\ \A i \in 1..N :
             Truthy(django_sqls_for_querysets[i]) =>
               /\ raw_sql[Rank(i) + 1].sql = django_sqls_for_querysets[i]
               /\ LexLiteral(raw_sql[Rank(i) + 1].key).text = PyStrNat(Rank(i))
  /\ pc = "done" =>
       \A i \in 1..N :
          Truthy(django_sqls_for_querysets[i]) =>
            /\ lookups[Rank(i) + 1] = PyStrNat(Rank(i))
            /\ SameValue(returned[i],
                 RehydratedValue(querysets[i],
                   DictGet(raw_sql_result_dict, PyStrNat(Rank(i))).rows).value)

\* [Count, RowFetch, always-empty RowFetch] gives [count, entities, []] with
\* one execution
C3_Witness ==
  /\ pc = "done"
  /\ N = 3
  /\ querysets[1].kind = "QuerysetCountWrapper"
  /\ querysets[2].kind = "QuerySet" /\ querysets[3].kind = "QuerySet"
  /\ Truthy(django_sqls_for_querysets[1]) /\ Truthy(django_sqls_for_querysets[2])
  /\ ~Truthy(django_sqls_for_querysets[3])
  /\ returned[1].t = "int"
  /\ returned[2].t = "list" /\ returned[2].v # <<>> /\ returned[2].v[1].t = "entity"
  /\ returned[3] = PyList(<<>>)
  /\ executions = 1

\* the queryset at position i was given as one that can match nothing
StaticallyEmpty(i) == querysets[i].given.empty

\* C4: every statically empty queryset gets its own default ([] for a
\* queryset, 0 for a count, None for a get-or-none) without a lookup in the
\* response, and a batch of statically empty querysets alone ends with these
\* defaults returned and no round trip to the engine.
C4_EmptyDefaultsNoRoundTrip ==
  /\ pc = "done" =>
       /\ \A i \in 1..N :
             StaticallyEmpty(i) =>
               returned[i] =
                 (CASE querysets[i].kind = "QuerysetCountWrapper" -> DbInt(0)
                    [] querysets[i].kind = "QuerysetGetOrNoneWrapper" -> PyNone
                    [] OTHER -> PyList(<<>>))
       /\ Len(lookups) = Cardinality({i \in 1..N : ~StaticallyEmpty(i)})
  /\ pc \in {"done", "failed"} /\ (\A i \in 1..N : StaticallyEmpty(i)) =>
       pc = "done" /\ executions = 0 /\ lookups = <<>>

\* The batch is the one plain queryset of a shape the conversion knows
AloneRowFetch ==
  /\ N = 1
  /\ querysets[1].kind = "QuerySet"
  /\ querysets[1].given.iterable_class \in IterableClasses

\* C5: for a queryset evaluated alone, of any supported shape, the returned
\* list equals list(queryset): same length, same order, values equal and of
\* equal types.
C5_EqualsDirectPath ==
  pc = "done" /\ AloneRowFetch =>
    SameValue(returned[1], Materialize(querysets[1].given))

\* C6: the result of a count is the integer number of rows its queryset
\* materialises through the direct path, alone or next to other querysets,
\* and counting does not make execute raise.
C6_CountEqualsDirectLength ==
  /\ pc = "done" =>
       \A i \in 1..N :
          querysets[i].kind = "QuerysetCountWrapper" =>
            /\ returned[i].t = "int"
            /\ returned[i].v = Len(Materialize(querysets[i].given).v)
  /\ pc = "failed" /\ N = 1 /\ querysets[1].kind = "QuerysetCountWrapper" =>
       error = "OperationalError"

\* the rows the queryset given at position i yields when fetched as a plain
\* queryset through the same statement
FullResultSet(i) ==
  LET plain == PlainQueryset(querysets[i].given)
      sql == GetDjangoSqlForQueryset(plain)
  IN  IF ~Truthy(sql) THEN <<>>
      ELSE ConvertRawResultsToFinalQuerysetResults(plain,
             EvalFragment(ConvertedSql(<<[key |-> <<"'", "0", "'">>,
                                          sql |-> sql]>>)[1].sql)).value.v

IsGetOrNone(i) == querysets[i].kind = "QuerysetGetOrNoneWrapper"

\* C7: a get-or-none returns None when no row matches and otherwise one row
\* of the queryset's full result set; several matching rows never make it
\* raise; its query is narrowed to one row at construction, so the response
\* holds at most one row for it.
C7_FirstOrNone ==
  /\ \A i \in 1..N :
        IsGetOrNone(i) =>
          /\ querysets[i].queryset.high_mark # -1
          /\ querysets[i].queryset.high_mark - querysets[i].queryset.low_mark <= 1
  /\ pc \in {"rehydrate", "done"} /\ executions = 1 =>
       \A i \in 1..N :
          IsGetOrNone(i) /\ Truthy(django_sqls_for_querysets[i]) =>
            Len(DictGet(raw_sql_result_dict, PyStrNat(Rank(i))).rows) <= 1
  /\ pc = "done" =>
       \A i \in 1..N :
          IsGetOrNone(i) =>
            IF Materialize(querysets[i].given).v = <<>>
            THEN returned[i] = PyNone
            ELSE /\ \E r \in 1..Len(FullResultSet(i)) :
                       SameValue(returned[i], FullResultSet(i)[r])
                 /\ querysets[i].given.iterable_class = "ModelIterable"
                    /\ querysets[i].given.annotations = <<>> =>
                      \E r \in 1..Len(Materialize(querysets[i].given).v) :
                         SameValue(returned[i], Materialize(querysets[i].given).v[r])
  /\ pc = "failed" =>
       \* alone, it fails on the database's error, on a parameter refused
       \* when it is compiled, or on an iterable class that is not known
       /\ N = 1 /\ IsGetOrNone(1) =>
            \/ error = "OperationalError"
            \/ error = "ValueError" /\ executions = 0
            \/ /\ error = "ValueError"
               /\ querysets[1].given.iterable_class \notin IterableClasses
       /\ final_result_list # <<>>
          /\ error \notin {"ProgrammingError", "OperationalError"}
          /\ IsGetOrNone(Len(final_result) + 1)
            => /\ error = "ValueError"
               /\ querysets[Len(final_result) + 1].given.iterable_class
                     \notin IterableClasses

\* The batch is one plain queryset over the model filtered on one string
AloneStringFilter ==
  /\ N = 1
  /\ querysets[1].kind = "QuerySet"
  /\ querysets[1].given.iterable_class = "ModelIterable"
  /\ querysets[1].given.annotations = <<>>
  /\ Len(querysets[1].given.where) = 1
  /\ querysets[1].given.where[1].col = "name"
  /\ querysets[1].given.where[1].val.t = "str"

\* the ids of the stored rows whose name is the string s
IdsNamed(s) == {Table[r].id.v : r \in {x \in 1..Len(Table) : Table[x].name.v = s}}

\* the ids of a returned list of instances
ReturnedIds(result) == {result.v[r].v[1].v.v : r \in 1..Len(result.v)}

\* C8: for every string parameter, whatever characters it holds, the literal
\* is the driver's quoting of the string, lexes as one literal whose value is
\* the string, the statement reaches the engine as built, and the filter
\* matches exactly the rows whose column equals the string.
C8_StringLiteralSafe ==
  AloneStringFilter =>
    LET s == querysets[1].given.where[1].val.s
    IN  /\ django_sqls_for_querysets # <<>> =>
             /\ django_sqls_for_querysets[1].lits[1] = GetSanitizedSqlParam(s)
             /\ LexLiteral(django_sqls_for_querysets[1].lits[1]).ok
             /\ LexLiteral(django_sqls_for_querysets[1].lits[1]).text = s
        /\ pc \in {"rehydrate", "done"} =>
             ConvertedSql(raw_sql) = raw_sql
        /\ pc = "failed" => error = "OperationalError"
        /\ pc = "done" => ReturnedIds(returned[1]) = IdsNamed(s)

\* a get-or-none over all rows next to another queryset returned one instance
C7_Witness ==
  /\ pc = "done"
  /\ N = 2
  /\ IsGetOrNone(2)
  /\ Len(Materialize(querysets[2].given).v) > 1
  /\ returned[2].t = "entity"
  /\ Len(DictGet(raw_sql_result_dict, PyStrNat(Rank(2))).rows) = 1

\* the parameters the loop over params meets for the queryset at position i:
\* none when the compiler is the aggregate one or the query matches nothing
LoopParams(i) ==
  LET c == GetCompilerFromQueryset(querysets[i])
  IN  IF c.compiler = "SQLCompiler" /\ ~c.query.empty
      THEN [j \in 1..Len(c.query.where) |-> c.query.where[j].val]
      ELSE <<>>

\* the types of the spec's list: string, UUID, timestamp, integer, float
ListedTypes == {"str", "UUID", "datetime", "int", "float"}

\* the types whose values are instances of a listed type: bool is an int
InstanceTypes == ListedTypes \cup {"bool"}

\* compiling stopped at the queryset after the compiled ones
CompileFailed == pc = "failed" /\ final_result_list = <<>> /\ executions = 0

\* the literal of an accepted parameter: quoted for str, UUID and datetime,
\* str(param) otherwise
IsLiteralOf(lit, p) ==
  CASE p.t = "str" -> LexLiteral(lit).ok /\ LexLiteral(lit).text = p.s
    [] p.t \in {"UUID", "datetime"} -> lit = <<"'">> \o p.s \o <<"'">>
    [] OTHER -> lit = p.s

\* the allow-list property for a set of accepted types: a queryset is
\* compiled to a fragment only if all its parameters are of these types, each
\* then as its literal, and compiling raises ValueError exactly when the loop
\* meets a parameter of another type
AllowList(types) ==
  /\ \A i \in 1..Len(django_sqls_for_querysets) :
        Truthy(django_sqls_for_querysets[i]) =>
          /\ Len(django_sqls_for_querysets[i].lits) = Len(LoopParams(i))
          /\ \A j \in 1..Len(LoopParams(i)) :
                /\ LoopParams(i)[j].t \in types
                /\ IsLiteralOf(django_sqls_for_querysets[i].lits[j], LoopParams(i)[j])
  /\ CompileFailed =>
       (error = "ValueError" <=>
          \E j \in 1..Len(LoopParams(Len(django_sqls_for_querysets) + 1)) :
             LoopParams(Len(django_sqls_for_querysets) + 1)[j].t \notin types)

\* C9 as stated: a parameter becomes a literal if and only if its type is
\* string, UUID, timestamp, integer or floating-point; a boolean, like a
\* decimal, a date, None or bytes, makes compilation fail.
C9_StrictAllowList == AllowList(ListedTypes)

\* C9: a parameter becomes a literal if and only if it is an instance of
\* str, UUID, datetime, int or float, which takes in bool; a parameter of any
\* other type (Decimal, date, None, bytes) makes compilation raise ValueError
\* and no fragment holds it.
C9_InstanceAllowList == AllowList(InstanceTypes)

\* a boolean was spliced as True into the first fragment and compiling the
\* second queryset raised on a date
C9_Witness ==
  /\ CompileFailed
  /\ error = "ValueError"
  /\ Len(django_sqls_for_querysets) = 1
  /\ LoopParams(1)[1].t = "bool"
  /\ django_sqls_for_querysets[1].lits = <<<<"T", "r", "u", "e">>>>
  /\ LoopParams(2)[1].t = "date"

\* C10: when the execution of the statement fails, execute raises the
\* driver's error, returns nothing for any queryset and converts no result,
\* and the statement is executed at most once on every path.
C10_FailsWholeNoRetry ==
  /\ executions <= 1
  /\ pc = "failed" /\ error \in {"ProgrammingError", "OperationalError"} =>
       /\ executions = 1
       /\ returned = <<>>
       /\ final_result = <<>>
       /\ lookups = <<>>
       /\ raw_sql_result_dict = <<>>

\* a statement of two fragments was refused and execute raised
C10_Witness ==
  /\ pc = "failed"
  /\ error = "ProgrammingError"
  /\ Len(raw_sql) = 2
  /\ executions = 1
  /\ returned = <<>>

\* the attribute of a returned instance, None when it has no such attribute
Attr(obj, name) ==
  IF \E j \in 1..Len(obj.v) : obj.v[j].k = name
  THEN obj.v[CHOOSE j \in 1..Len(obj.v) : obj.v[j].k = name].v
  ELSE PyNone

\* the stored row a returned instance was read from
StoredRow(model, obj) ==
  LET rows == ModelTable(model)
  IN  rows[CHOOSE r \in 1..Len(rows) : rows[r].id = Attr(obj, "id")]

\* the columns of a model that hold exact decimals
DecimalColumns(model) ==
  {ModelFields(model)[j] : j \in {x \in 1..Len(ModelFields(model)) :
                                    ModelFieldType(model, ModelFields(model)[x]) = "decimal"}}

IsEntityFetch(i) ==
  /\ querysets[i].kind = "QuerySet"
  /\ querysets[i].given.iterable_class = "ModelIterable"

\* C11: every instance an entity-shape queryset returns holds, in each of its
\* exact-decimal columns, an exact decimal equal to the stored value when the
\* stored value is not null, and None when it is null.
C11_ExactDecimalRoundTrip ==
  pc = "done" =>
    \A i \in 1..N :
       IsEntityFetch(i) =>
         \A r \in 1..Len(returned[i].v) :
            \A f \in DecimalColumns(querysets[i].given.model)
                      \ querysets[i].given.deferred :
               LET got == Attr(returned[i].v[r], f)
                   stored == StoredRow(querysets[i].given.model, returned[i].v[r])[f]
               IN  IF stored.t = "none" THEN got.t = "none"
                   ELSE got.t = "decimal" /\ SameValue(got, stored)

\* the columns of a model that hold JSON
JsonColumns(model) ==
  {ModelFields(model)[j] : j \in {x \in 1..Len(ModelFields(model)) :
                                    FieldClass(model, ModelFields(model)[x]) = "JSONField"}}

\* C12: every instance an entity-shape queryset returns holds, in a JSON
\* column that stores a mapping, an equal mapping, and in one that stores a
\* list, an equal list (never the other kind, never the JSON text), and the
\* converters of the entity's fields do not reject the value they are given
\* when the JSON columns store mappings, lists and nulls only.
C12_StructuredColumnRoundTrip ==
  /\ pc = "done" =>
       \A i \in 1..N :
          IsEntityFetch(i) =>
            \A r \in 1..Len(returned[i].v) :
               \A f \in JsonColumns(querysets[i].given.model) :
                  LET got == Attr(returned[i].v[r], f)
                      stored == StoredRow(querysets[i].given.model, returned[i].v[r])[f]
                  IN  stored.t \in {"dict", "list"} =>
                        got.t = stored.t /\ SameValue(got, stored)
  /\ N = 1 /\ IsEntityFetch(1)
     /\ (\A r \in 1..Len(ModelTable(querysets[1].given.model)) :
           \A f \in JsonColumns(querysets[1].given.model) :
              ModelTable(querysets[1].given.model)[r][f].t \in {"dict", "list", "none"})
       => error # "TypeError"

\* an entity-shape queryset alone returned a row whose JSON column is a
\* non-empty mapping and a row whose JSON column is a non-empty list
C12_Witness ==
  /\ pc = "done"
  /\ N = 1
  /\ IsEntityFetch(1)
  /\ Len(returned[1].v) >= 2
  /\ Attr(returned[1].v[1], "payload").t = "dict"
  /\ Attr(returned[1].v[1], "payload").v # <<>>
  /\ Attr(returned[1].v[2], "payload").t = "list"
  /\ Attr(returned[1].v[2], "payload").v # <<>>

\* queryset.aggregate(**aggregates): the mapping the direct evaluation returns
DirectAggregate(q, aggregates) ==
  LET rows == IF q.empty THEN <<>>
              ELSE SelectSeq(ModelTable(q.model), LAMBDA r : BoundMatches(r, q.where))
  IN  PyDict([j \in 1..Len(aggregates) |->
                [k |-> aggregates[j].name, v |-> FoldAggregate(aggregates[j], rows)]])

\* an aggregate's value over no row: 0 for a count, None for a sum
ZeroValue(aggregate) == IF aggregate.func = "Count" THEN DbInt(0) ELSE PyNone

\* C13: an Aggregate intent yields one mapping, not a list, with exactly one
\* entry per declared aggregate name, each value equal to the direct
\* aggregate evaluation's, from the only execution of the batch, alone or
\* next to other intents; over a query that matches no row when executed the
\* count is 0 and the sum is None.
C13_AggregateMapping ==
  pc = "done" =>
    \A i \in 1..N :
       IsAggregateIntent(querysets[i]) =>
         LET aggregates == querysets[i].aggregates
             direct == DirectAggregate(querysets[i].given, aggregates)
         IN  /\ returned[i].t = "dict"
             /\ Len(returned[i].v) = Len(aggregates)
             /\ \A j \in 1..Len(aggregates) : returned[i].v[j].k = aggregates[j].name
             /\ SameValue(returned[i], direct)
             /\ Truthy(django_sqls_for_querysets[i]) =>
                  /\ executions = 1
                  /\ DirectRows(querysets[i].given) = <<>> =>
                       \A j \in 1..Len(aggregates) :
                          returned[i].v[j].v = ZeroValue(aggregates[j])

\* a sum and a count over all rows, next to a queryset of instances
C13_Witness ==
  /\ pc = "done"
  /\ N = 2
  /\ querysets[1] = PlainQueryset(AllObjects)
  /\ querysets[2] =
       QuerysetAggregateWrapper(AllObjects, <<TotalPriceAggregate, CountAggregate>>)
  /\ executions = 1
  /\ returned[2].v[1].v.t = "decimal"
  /\ returned[2].v[2].v = DbInt(Len(Table))

\* C14: a statically empty Aggregate intent has no fragment in the statement
\* and costs no lookup in the response, and its result is the mapping from
\* each declared name to the aggregate's value over no row.
C14_EmptyAggregateDefaults ==
  /\ \A i \in 1..Len(django_sqls_for_querysets) :
        IsAggregateIntent(querysets[i]) /\ StaticallyEmpty(i) =>
          ~Truthy(django_sqls_for_querysets[i])
  /\ pc \in {"rehydrate", "done"} => Len(raw_sql) = NonEmptyCount
  /\ pc = "done" =>
       /\ Len(lookups) = NonEmptyCount
       /\ \A i \in 1..N :
             IsAggregateIntent(querysets[i]) /\ StaticallyEmpty(i) =>
               /\ returned[i].t = "dict"
               /\ Len(returned[i].v) = Len(querysets[i].aggregates)
               /\ \A j \in 1..Len(querysets[i].aggregates) :
                     /\ returned[i].v[j].k = querysets[i].aggregates[j].name
                     /\ returned[i].v[j].v = ZeroValue(querysets[i].aggregates[j])

\* a statically empty sum and count next to a queryset that is fetched
C14_Witness ==
  /\ pc = "done"
  /\ N = 2
  /\ querysets[1] = PlainQueryset(AllObjects)
  /\ querysets[2] =
       QuerysetAggregateWrapper(AlwaysEmpty, <<TotalPriceAggregate, CountAggregate>>)
  /\ executions = 1
  /\ Len(raw_sql) = 1
  /\ lookups = <<PyStrNat(0)>>
  /\ returned[2].t = "dict"

\* some queryset of the batch has, among the parameters its compilation
\* binds, one that is not an instance of an accepted type
CarriesRefusedParam ==
  \E i \in 1..N :
     \E j \in 1..Len(LoopParams(i)) : LoopParams(i)[j].t \notin InstanceTypes

\* some queryset of the batch was given a parameter whose type is not one of
\* the listed ones
CarriesParamOutsideList ==
  \E i \in 1..N :
     \E j \in 1..Len(querysets[i].given.where) :
        querysets[i].given.where[j].val.t \notin ListedTypes

\* C15 as stated: when a queryset of the batch carries a parameter of a type
\* outside the list, execute fails before any execution: nothing is
\* executed, no cursor is opened and nothing is returned.
C15_OutsideListBeforeExecution ==
  CarriesParamOutsideList =>
    /\ pc \in {"compile", "failed"}
    /\ executions = 0
    /\ cursors_acquired = 0
    /\ returned = <<>>

\* C15: when a queryset of the batch, at whatever position and next to
\* whatever querysets, binds on compilation a parameter that is not an
\* instance of an accepted type, execute
\* raises while compiling: no statement is built or executed, no cursor is
\* opened, nothing is converted and nothing is returned.
C15_RefusedParamBeforeExecution ==
  CarriesRefusedParam =>
    /\ pc \in {"compile", "failed"}
    /\ pc = "failed" => error \in {"ValueError", "TypeError"}
    /\ raw_sql = <<>>
    /\ executions = 0
    /\ cursors_acquired = 0 /\ ~cursor_held
    /\ final_result = <<>>
    /\ returned = <<>>

\* the first queryset compiled to a fragment, the second one binds a date:
\* execute raised ValueError with nothing executed
C15_Witness ==
  /\ N = 2
  /\ pc = "failed"
  /\ error = "ValueError"
  /\ Len(django_sqls_for_querysets) = 1
  /\ Truthy(django_sqls_for_querysets[1])
  /\ \E j \in 1..Len(LoopParams(2)) : LoopParams(2)[j].t \notin InstanceTypes
  /\ executions = 0
  /\ cursors_acquired = 0

\* the positions in the trace of the calls that satisfy Test
Positions(Test(_)) == {a \in 1..Len(events) : Test(events[a])}

IsExecution(e) == e.op = "execute"
IsSqlRequest(e) == e.op = "as_sql"
IsCompilation(e) == e.phase = "compile"
IsRehydration(e) == e.phase = "rehydrate"

\* every position of the first set is before every position of the second
AllBefore(first, second) == \A a \in first : \A b \in second : a < b

\* C16 as stated: every request to the compiler for SQL text is made before
\* the execution of the statement, every rehydration step after it.
C16_NoSqlRequestAfterExecution ==
  /\ AllBefore(Positions(IsSqlRequest), Positions(IsExecution))
  /\ AllBefore(Positions(IsExecution), Positions(IsRehydration))

\* C16: the phases of execute are strictly ordered.  Every fragment is
\* compiled before the one execution and before any rehydration step, every
\* rehydration step comes after the execution, and nothing is compiled into
\* a fragment once the statement is built; the compiler is asked for SQL
\* again only while the instances of a queryset are rebuilt, which executes
\* nothing.
C16_PhasesOrdered ==
  /\ Cardinality(Positions(IsExecution)) <= 1
  /\ AllBefore(Positions(IsCompilation), Positions(IsExecution))
  /\ AllBefore(Positions(IsCompilation), Positions(IsRehydration))
  /\ AllBefore(Positions(IsExecution), Positions(IsRehydration))
  /\ pc # "compile" => Cardinality(Positions(IsCompilation)) = Len(django_sqls_for_querysets)
                        + (IF pc = "failed" /\ final_result_list = <<>> THEN 1 ELSE 0)
  /\ \A a \in Positions(IsSqlRequest) :
        IsRehydration(events[a]) =>
          /\ a < Len(events) /\ events[a + 1].op = "convert"
          /\ executions = 1

\* a fragment was compiled, the statement executed, and the compiler asked
\* for SQL again while the instances were rebuilt
C16_Witness ==
  /\ pc = "done"
  /\ \E a, b, c \in 1..Len(events) :
        /\ a < b /\ b < c
        /\ events[a].op = "as_sql" /\ events[a].phase = "compile"
        /\ events[b].op = "execute" /\ events[b].phase = "execute"
        /\ events[c].op = "as_sql" /\ events[c].phase = "rehydrate"
  /\ returned[1].t = "list" /\ returned[1].v # <<>>

\* C17: one execute call opens at most one cursor, and only after a
\* statement was built; the cursor is open only between its acquisition and
\* the end of the with block, which every path out of the block goes through
\* (the fetch succeeded, the execution raised, the fetch raised); none is
\* open while fragments are compiled or results converted, nor once execute
\* has returned or raised.
C17_CursorScoped ==
  /\ cursors_acquired <= 1
  /\ cursors_acquired = 1 => raw_sql # <<>>
  /\ raw_sql = <<>> => cursors_acquired = 0 /\ ~cursor_held
  /\ cursor_held <=> pc \in {"execute", "fetch", "release", "unwind"}
  /\ pc \in {"compile", "build", "acquire", "rehydrate", "done", "failed"} =>
       ~cursor_held
  /\ pc \in {"rehydrate", "done"} =>
       cursors_acquired = (IF NonEmptyCount > 0 THEN 1 ELSE 0)
  /\ executions > 0 => cursors_acquired = 1

\* a queryset or get-or-none whose iterable class is not one of the four
UnsupportedShape(i) ==
  /\ querysets[i].kind \in {"QuerySet", "QuerysetGetOrNoneWrapper"}
  /\ querysets[i].given.iterable_class \notin IterableClasses

\* C18 as stated: a queryset or get-or-none of an unsupported shape makes
\* execute raise the unsupported-shape error (ValueError) and return nothing,
\* be its query statically empty or not, whatever the other querysets are.
C18_UnsupportedShapeAlwaysFatal ==
  \A i \in 1..N :
     UnsupportedShape(i) =>
       /\ pc # "done"
       /\ pc = "failed" => error = "ValueError"

\* C18: a queryset or get-or-none of an unsupported shape whose query is not
\* statically empty never gets a value: execute does not return, and when the
\* last loop reaches the position of that queryset the conversion raises
\* ValueError.  A statically empty one is not converted at all and gets its
\* empty value.
C18_UnsupportedShapeFatalWhenConverted ==
  \A i \in 1..N :
     UnsupportedShape(i) =>
       IF StaticallyEmpty(i)
       THEN pc = "done" => returned[i] = GetEmptyQuerysetValue(querysets[i])
       ELSE /\ pc # "done"
            /\ Len(final_result) < i
            /\ pc = "failed" /\ Len(final_result) = i - 1 /\ lookups # <<>>
               /\ Len(lookups) = Rank(i) + 1
                 => error = "ValueError"

\* after the first queryset was converted the conversion of the second, of
\* an unsupported shape, raised ValueError
C18_Witness ==
  /\ N = 2
  /\ UnsupportedShape(2)
  /\ ~StaticallyEmpty(2)
  /\ pc = "failed"
  /\ error = "ValueError"
  /\ executions = 1
  /\ Len(final_result) = 1
  /\ Len(lookups) = 2

IsMappingFetch(i) ==
  /\ querysets[i].kind = "QuerySet"
  /\ querysets[i].given.iterable_class = "ValuesIterable"

\* C19: every row a mapping-shape queryset returns is a mapping keyed by the
\* names of its columns, and the value of a decimal, UUID, date or datetime
\* column is of the type the patch of instances gives it (the patch would
\* leave it as it is), not the number or text of the JSON response.
C19_MappingRowsCoerced ==
  pc = "done" =>
    \A i \in 1..N :
       IsMappingFetch(i) =>
         LET q == querysets[i].given
         IN  \A r \in 1..Len(returned[i].v) :
                /\ returned[i].v[r].t = "dict"
                /\ \A j \in 1..Len(FieldCols(q)) :
                      LET item == returned[i].v[r].v[j]
                      IN  /\ item.k = FieldCols(q)[j]
                          /\ TransformField(FieldClass(q.model, FieldCols(q)[j]),
                                            item.v).t = item.v.t

IsScalarFetch(i, cls) ==
  /\ querysets[i].kind = "QuerySet"
  /\ querysets[i].given.iterable_class = cls
  /\ Truthy(django_sqls_for_querysets[i])

CanonicalJson(value) ==
  CASE value.t \in {"dict", "list"} -> JsonDumps(value)
    [] value.t = "str" -> <<"\"">> \o value.v \o <<"\"">>
    [] OTHER -> PyStrInt(value.v)

\* the rows the response holds for queryset i, <<>> before they are fetched
FetchedRows(i) ==
  IF pc \in {"rehydrate", "done"} /\ executions = 1
     /\ Truthy(django_sqls_for_querysets[i])
  THEN DictGet(raw_sql_result_dict, PyStrNat(Rank(i))).rows
  ELSE <<>>

\* C21: in the rows handed to the reconstruction of instances, every value
\* of a JSON column that is not null is the canonical JSON text of the
\* decoded value, be it a mapping, a list, a string or a number, and every
\* value of any other column is the decoded value itself, also when that is
\* a list or a mapping.
C21_DumpedByColumnType ==
  \A i \in 1..N :
     IsEntityFetch(i) =>
       LET q == querysets[i].given
           rows == FetchedRows(i)
       IN  \A r \in 1..Len(rows) :
              \A j \in 1..Len(LoadedFields(q)) :
                 LET decoded == RowValues(rows[r])[j]
                     handed == NewResults(rows)[r][j]
                 IN  IF FieldClass(q.model, LoadedFields(q)[j]) = "JSONField"
                        /\ decoded.t # "none"
                     THEN handed.t = "str" /\ handed.v = CanonicalJson(decoded)
                     ELSE SameValue(handed, decoded)

HasAttr(obj, name) == \E j \in 1..Len(obj.v) : obj.v[j].k = name

\* the columns of a model that hold a UUID, a date or a timestamp
ParsedColumns(model) ==
  {ModelFields(model)[j] : j \in {x \in 1..Len(ModelFields(model)) :
      \/ IsSubclass(FieldClass(model, ModelFields(model)[x]), "UUIDField")
      \/ IsSubclass(FieldClass(model, ModelFields(model)[x]), "DateField")}}

\* the instance `got` holds in each UUID, date and timestamp column that is
\* loaded on `want` the value `want` holds, and so does every instance
\* cached on it for a relation that is populated on `want`, however deep;
\* where `want` has None for a relation, `got` has None cached
RECURSIVE ParsedAlike(_, _, _)
ParsedAlike(model, got, want) ==
  IF want.t # "entity" THEN got.t = want.t
  ELSE /\ got.t = "entity"
       /\ \A f \in ParsedColumns(model) :
             HasAttr(want, f) => HasAttr(got, f) /\ SameValue(Attr(got, f), Attr(want, f))
       /\ \A j \in 1..Len(Relations(model)) :
             LET rel == Relations(model)[j]
             IN  HasAttr(want, rel.name) =>
                   /\ HasAttr(got, rel.name)
                   /\ ParsedAlike(rel.to, Attr(got, rel.name), Attr(want, rel.name))

\* C22: every instance an entity-shape queryset returns holds in its UUID,
\* date and timestamp columns what list(queryset) gives (parsed from the
\* text, None where the column is null), and so does every related instance
\* select_related populated, at any depth; a selected relation that is null
\* is cached as None; none of it runs a further query.
C22_ParsedAtAnyDepth ==
  pc = "done" =>
    \A i \in 1..N :
       IsEntityFetch(i) /\ querysets[i].given.deferred = {} =>
         /\ Len(returned[i].v) = Len(Materialize(querysets[i].given).v)
         /\ \A r \in 1..Len(returned[i].v) :
               ParsedAlike(querysets[i].given.model, returned[i].v[r],
                           Materialize(querysets[i].given).v[r])

\* how many attributes of that name an instance has
AttrCount(obj, name) == Cardinality({j \in 1..Len(obj.v) : obj.v[j].k = name})

\* the instances queryset i would give from the rows fetched for it were it
\* given no known related objects
WithoutKnown(i) ==
  GetInstancesFromResultsForModelIterable(
    [querysets[i].given EXCEPT !.known_related_objects = <<>>], FetchedRows(i))

\* C23: on every instance an entity-shape queryset returns, for every field
\* with known related objects: a relation select_related loaded holds what
\* it loaded; else, when the instance's foreign key is the key of a supplied
\* object, the relation holds that object; else the relation is not
\* populated; and the known related objects never make execute raise.
C23_KnownRelatedObjects ==
  /\ pc = "done" =>
       \A i \in 1..N :
          IsEntityFetch(i) =>
            \A r \in 1..Len(returned[i].v) :
               \A n \in 1..Len(querysets[i].given.known_related_objects) :
                  LET obj == returned[i].v[r]
                      known == querysets[i].given.known_related_objects[n]
                      field == known.field
                      key == Attr(obj, field.attname)
                  IN  IF <<field.name>> \in querysets[i].given.select_related
                      THEN /\ AttrCount(obj, field.name) = 1
                           /\ SameValue(Attr(obj, field.name),
                                        Attr(WithoutKnown(i)[r], field.name))
                      ELSE IF key \in known.rel_objs
                      THEN /\ AttrCount(obj, field.name) = 1
                           /\ SameValue(Attr(obj, field.name),
                                        HeldInstance(field.to, key))
                      ELSE AttrCount(obj, field.name) = 0
  /\ pc = "failed" /\ N = 1 /\ IsEntityFetch(1)
     /\ querysets[1].given.known_related_objects # <<>>
       => error = "OperationalError"

\* a queryset alone returned instances of which one has a relation loaded
\* by select_related that is known too, one got a supplied object set, one
\* has a foreign key that is no key of the supplied objects and one has a
\* null foreign key
C23_Witness ==
  /\ pc = "done"
  /\ N = 1
  /\ IsEntityFetch(1)
  /\ <<"store">> \in querysets[1].given.select_related
  /\ \E n \in 1..Len(querysets[1].given.known_related_objects) :
        querysets[1].given.known_related_objects[n].field.name = "store"
  /\ \E n \in 1..Len(querysets[1].given.known_related_objects) :
        LET known == querysets[1].given.known_related_objects[n]
        IN  /\ known.field.name = "category"
            /\ \E r \in 1..Len(returned[1].v) :
                  /\ Attr(returned[1].v[r], "category_id") \in known.rel_objs
                  /\ Attr(returned[1].v[r], "category").t = "entity"
            /\ \E r \in 1..Len(returned[1].v) :
                  /\ Attr(returned[1].v[r], "category_id").t = "int"
                  /\ Attr(returned[1].v[r], "category_id") \notin known.rel_objs
                  /\ ~HasAttr(returned[1].v[r], "category")
            /\ \E r \in 1..Len(returned[1].v) :
                  /\ Attr(returned[1].v[r], "category_id").t = "none"
                  /\ ~HasAttr(returned[1].v[r], "category")

\* C24: no step of execute changes self.querysets (the list, its wrappers,
\* the query of each queryset as it was given and as the wrapper keeps it),
\* whether execute returns or raises; and when execute is called again on
\* the batch after it returned, what it returns then is the list it
\* returned before.
C24_CallerUntouched ==
  [][/\ querysets' = querysets
     /\ (pc' = "done" /\ previous'.t = "list" => returned' = previous'.v)]_vars

\* the second call on a batch with a count and a get-or-none (its query
\* narrowed to one row, the given one not) returned after the first did
C24_Witness ==
  /\ pc = "done"
  /\ calls = 2
  /\ previous.t = "list"
  /\ returned # <<>>
  /\ \E i \in 1..N :
        /\ querysets[i].kind = "QuerysetCountWrapper"
        /\ Truthy(django_sqls_for_querysets[i])
  /\ \E i \in 1..N :
        /\ querysets[i].kind = "QuerysetGetOrNoneWrapper"
        /\ querysets[i].queryset # querysets[i].given
        /\ Truthy(django_sqls_for_querysets[i])

\* C25: the placeholder is in no list execute returns and in no list it is
\* building; in a returned list every position the first loop marked with
\* the placeholder holds the conversion of the rows looked up for it, every
\* other position holds the empty value the first loop put there, and the
\* response was looked up once for each key of the statement.
C25_PlaceholderNeverEscapes ==
  /\ \A i \in 1..Len(final_result) : ~IsPlaceholder(final_result[i])
  /\ pc = "done" =>
       /\ Len(returned) = N
       /\ Len(lookups) = Len(raw_sql)
       /\ \A i \in 1..N :
             /\ ~IsPlaceholder(returned[i])
             /\ IF IsPlaceholder(final_result_list[i])
                THEN /\ Rank(i) + 1 <= Len(lookups)
                     /\ lookups[Rank(i) + 1] = PyStrNat(Rank(i))
                     /\ SameValue(returned[i],
                                  RehydratedValue(querysets[i], FetchedRows(i)).value)
                ELSE /\ SameValue(returned[i], final_result_list[i])
                     /\ SameValue(returned[i], EmptyValue(querysets[i]))

\* execute returned for a batch in which a statically empty queryset stands
\* between two that were fetched
C25_Witness ==
  /\ pc = "done"
  /\ N = 3
  /\ IsPlaceholder(final_result_list[1])
  /\ ~IsPlaceholder(final_result_list[2])
  /\ IsPlaceholder(final_result_list[3])
  /\ Len(lookups) = 2

\* the positions of the batch whose rows are turned into instances, in order
InstancePositions ==
  LET Rebuilt(i) ==
        /\ i <= Len(final_result_list)
        /\ IsPlaceholder(final_result_list[i])
        /\ ~IsAggregateIntent(querysets[i])
        /\ querysets[i].kind # "QuerysetCountWrapper"
        /\ querysets[i].queryset.iterable_class = "ModelIterable"
  IN  SelectSeq([i \in 1..Len(querysets) |-> i], Rebuilt)

\* C26: the statement is executed on the connection "default" whatever the
\* aliases of the querysets, and at most once for the whole batch; the k-th
\* fragment is compiled with the alias of the k-th queryset, and the
\* instances of a queryset are rebuilt, and their deferred fields read, with
\* that queryset's alias.
C26_DefaultConnection ==
  LET IsCompile(e) == IsSqlRequest(e) /\ IsCompilation(e)
      IsRebuild(e) == IsSqlRequest(e) /\ IsRehydration(e)
      compiled == SelectSeq(events, IsCompile)
      rebuilt == SelectSeq(events, IsRebuild)
  IN  /\ \A k \in Positions(IsExecution) : events[k].using = "default"
      /\ Cardinality(Positions(IsExecution)) <= 1
      /\ Len(compiled) <= Len(querysets)
      /\ \A k \in 1..Len(compiled) :
            compiled[k].using = querysets[k].queryset.db
      /\ Len(rebuilt) <= Len(InstancePositions)
      /\ \A k \in 1..Len(rebuilt) :
            rebuilt[k].using = querysets[InstancePositions[k]].queryset.db
      /\ \A k \in 1..Len(events) :
            events[k].op = "refresh" =>
              \E a \in 1..(k - 1) :
                 /\ IsRebuild(events[a])
                 /\ events[a].using = events[k].using
                 /\ \A b \in (a + 1)..(k - 1) : ~IsRebuild(events[b])

\* a batch of two querysets of instances, the first bound to "replica" and
\* the second to "default", was fetched by one statement on "default" and
\* each was compiled and rebuilt with its own alias
C26_Witness ==
  /\ pc = "done"
  /\ Len(querysets) = 2
  /\ querysets[1].queryset.db = "replica"
  /\ querysets[2].queryset.db = "default"
  /\ InstancePositions = <<1, 2>>
  /\ executions = 1
  /\ \E a, b, c, d, e \in 1..Len(events) :
        /\ a < b /\ b < c /\ c < d /\ d < e
        /\ events[a] = EventUsing("as_sql", "compile", "replica")
        /\ events[b] = EventUsing("as_sql", "compile", "default")
        /\ events[c] = EventUsing("execute", "execute", "default")
        /\ events[d] = EventUsing("as_sql", "rehydrate", "replica")
        /\ events[e] = EventUsing("as_sql", "rehydrate", "default")

====
